---- MODULE Spec2Model ----
(***************************************************************************)
(* A model of pymatgen.io.nwchem.NwOutput: the constructor that splits a   *)
(* log into a preamble and job chunks, and _parse_job, the line scanner    *)
(* that decodes one job chunk into a job record.                           *)
(*                                                                         *)
(* Numbers printed in the log are modelled by small naturals.  A token is  *)
(* a record of its text and of the class that decides what int(), float()  *)
(* and str.find(".") make of it.  A line is a record of what the scanner   *)
(* can observe of it: its stripped text, its split() tokens, the groups of *)
(* each regular expression that matches it and the literals it contains.   *)
(***************************************************************************)
EXTENDS Integers, Sequences, FiniteSets, TLC

\* ------------------------------------------------------------------ bounds
\* lines scanned in one job chunk
MaxLines == 4

\* lines of a whole log handed to the constructor
MaxDocLines == 4

\* lines scanned in a chunk made of hessian lines
MaxHessLines == 7

\* lines scanned in a chunk made of frequency lines
MaxFreqLines == 5

\* lines of a log handed to parse_tddft
MaxTddftLines == 4

\* grid points asked of get_excitation_spectrum
MaxPoints == 3

\* lines scanned in a chunk made of basis-summary lines
MaxBsetLines == 5

\* lines of a log made of preamble lines
MaxPreambleLines == 4

\* lines scanned in a chunk made of geometry and force-table lines
MaxGeomLines == 6

\* lines scanned in a chunk of a hessian followed by a projected hessian
MaxProjHessLines == 8

\* ------------------------------------------------------------------ helpers
Last(s) == s[Len(s)]

Min2(a, b) == IF a <= b THEN a ELSE b

\* dict | dict: the right operand's keys win
Merge(f, g) == [k \in (DOMAIN f) \cup (DOMAIN g) |-> IF k \in DOMAIN g THEN g[k] ELSE f[k]]

EmptyDict == [k \in {} |-> 0]

\* Python's None against a list value
None == [some |-> FALSE, val |-> <<>>]

Some(x) == [some |-> TRUE, val |-> x]

\* Python truthiness of an optional list
Truthy(o) == o.some /\ o.val # <<>>

\* ------------------------------------------------------------------ tokens
FloatText == <<"1.0", "2.0", "3.0", "4.0", "5.0", "6.0">>

DText == <<"1.0D+00", "2.0D+00", "3.0D+00", "4.0D+00", "5.0D+00", "6.0D+00">>

EText == <<"1.0e+00", "2.0e+00", "3.0e+00", "4.0e+00", "5.0e+00", "6.0e+00">>

IntText == <<"1", "2", "3", "4", "5", "6">>

\* "1.0": parsed by float(), not by int(); holds a "."
Num(n) == [cls |-> "float", text |-> FloatText[n], num |-> n, dot |-> TRUE]

\* "1.0D+00": Fortran exponent, parsed by neither until normalised
DNum(n) == [cls |-> "dfloat", text |-> DText[n], num |-> n, dot |-> TRUE]

\* "1.0s": a number of seconds as the timing line prints it
SecondsText == <<"1.0s", "2.0s", "3.0s", "4.0s", "5.0s", "6.0s">>

\* "1": parsed by int() and by float(); holds no "."
IntTok(n) == [cls |-> "int", text |-> IF n = 0 THEN "0" ELSE IntText[n], num |-> n, dot |-> FALSE]

\* a word, parsed by neither
W(t) == [cls |-> "word", text |-> t, num |-> 0, dot |-> FALSE]

\* a run of dashes
Dash == [cls |-> "dash", text |-> "-----", num |-> 0, dot |-> FALSE]

\* fort2py: x.replace("D", "e")
fort2py(x) == IF x.cls = "dfloat" THEN [x EXCEPT !.cls = "float", !.text = EText[x.num]] ELSE x

\* isfloatstring: in_str.find(".") == -1
isfloatstring(in_str) == ~in_str.dot

\* float(x) succeeds
FloatOk(x) == x.cls \in {"float", "int"}

\* int(x) succeeds
IntOk(x) == x.cls = "int"

AllFloatOk(ts) == \A i \in 1..Len(ts) : FloatOk(ts[i])

Floats(ts) == [i \in 1..Len(ts) |-> ts[i].num]

Tail1(ts) == IF ts = <<>> THEN <<>> ELSE Tail(ts)

\* ------------------------------------------------------------------ lines
PattNames == {"energy", "gas", "sol", "coord", "lat", "corr", "pre", "force", "time"}

NoMatch == [p \in PattNames |-> <<>>]

\* eq: the stripped pieces of line.split("=")
MkLineEq(text, toks, m, finds, eq) ==
  [text |-> text, toks |-> toks, m |-> m, finds |-> finds, eq |-> eq]

\* a line without "="
MkLine(text, toks, m, finds) == MkLineEq(text, toks, m, finds, <<text>>)

Match(l, p) == l.m[p] # <<>>

Finds(l, lit) == lit \in l.finds

\* "         Total DFT energy =       1.0"
EnergyLine(v) ==
  MkLineEq("Total DFT energy", <<W("Total"), W("DFT"), W("energy"), W("="), Num(v)>>,
           [NoMatch EXCEPT !["energy"] = <<Num(v)>>], {}, <<"Total DFT energy", FloatText[v]>>)

\* "                 gas phase energy =        2.0"
GasLine(v) ==
  MkLineEq("gas phase energy", <<W("gas"), W("phase"), W("energy"), W("="), Num(v)>>,
           [NoMatch EXCEPT !["gas"] = <<Num(v)>>], {}, <<"gas phase energy", FloatText[v]>>)

\* "                 sol phase energy =        3.0"
SolLine(v) ==
  MkLineEq("sol phase energy", <<W("sol"), W("phase"), W("energy"), W("="), Num(v)>>,
           [NoMatch EXCEPT !["sol"] = <<Num(v)>>], {}, <<"sol phase energy", FloatText[v]>>)

\* " Task  times  cpu:        1.0s     wall:        1.3s"
TimeLine(v) ==
  MkLine("Task times", <<W("Task"), W("times"), W("cpu:"), W(SecondsText[v]), W("wall:"), W("1.3s")>>,
         [NoMatch EXCEPT !["time"] = <<Num(v)>>], {})

\* '          Geometry "geometry" -> ""'
GeomHeader ==
  MkLine("Geometry", <<W("Geometry"), W("\"geometry\""), W("->"), W("\"\"")>>,
         NoMatch, {"Geometry \"geometry\""})

\* "      Atomic Mass "
AtomicMassLine == MkLine("Atomic Mass", <<W("Atomic"), W("Mass")>>, NoMatch, {})

\* "    1 C                    6.0     1.0     2.0     3.0"
CoordLine(sym, x) ==
  MkLine("coord", <<IntTok(1), W(sym), Num(6), Num(x), Num(2), Num(3)>>,
         [NoMatch EXCEPT !["coord"] = <<W(sym), Num(x), Num(2), Num(3)>>], {})

\* "      a1=<   1.0   2.0   3.0 >"
LatticeLine ==
  MkLineEq("lattice", <<W("a1=<"), Num(1), Num(2), Num(3), W(">")>>,
           [NoMatch EXCEPT !["lat"] = <<Num(1), Num(2), Num(3)>>], {}, <<"a1", "< 1.0 2.0 3.0 >">>)

\* "  atom               coordinates                        gradient"
ForceHeader ==
  MkLine("atom coordinates gradient", <<W("atom"), W("coordinates"), W("gradient")>>,
         NoMatch, {"atom               coordinates                        gradient"})

\* "   1 C       4.0   5.0   6.0    1.0   2.0   3.0": coord_patt matches it too,
\* its groups being the symbol and the 2nd, 3rd and 4th number
ForceRow(f) ==
  MkLine("forcerow", <<IntTok(1), W("C"), Num(4), Num(5), Num(6), Num(f), Num(2), Num(3)>>,
         [NoMatch EXCEPT !["force"] = <<IntTok(1), W("C"), Num(4), Num(5), Num(6), Num(f), Num(2), Num(3)>>,
                         !["coord"] = <<W("C"), Num(5), Num(6), Num(f)>>], {})

\* "   "
BlankLine == MkLine("", <<>>, NoMatch, {})

\* " Frequency          1.0        2.0"
FreqHeader(fs) ==
  MkLine("Frequency", <<W("Frequency")>> \o [i \in 1..Len(fs) |-> Num(fs[i])],
         NoMatch, {"Frequency"})

\* " P.Frequency        1.0        2.0"
PFreqHeader(fs) ==
  MkLine("P.Frequency", <<W("P.Frequency")>> \o [i \in 1..Len(fs) |-> Num(fs[i])],
         NoMatch, {"P.Frequency", "Frequency"})

\* "           1     1.0     2.0": a displacement row, also the shape of a
\* hessian row printed without Fortran exponents
NumRow(r, vs) ==
  MkLine("numrow", <<IntTok(r)>> \o [i \in 1..Len(vs) |-> Num(vs[i])], NoMatch, {})

\* "    1    1.0D+00    2.0D+00"
HessRow(r, vs) ==
  MkLine("hessrow", <<IntTok(r)>> \o [i \in 1..Len(vs) |-> DNum(vs[i])], NoMatch, {})

\* "    1    1.0D+00    junk": a row with a token float() rejects
BadRow(r) ==
  MkLine("badrow", <<IntTok(r), DNum(1), W("junk")>>, NoMatch, {})

\* "               1            2": the column labels of a hessian block
ColLabel == MkLine("collabel", <<IntTok(1), IntTok(2)>>, NoMatch, {})

\* "   ----- ----- -----": short dashes, no run of ten
ShortDash == MkLine("shortdash", <<Dash, Dash, Dash>>, NoMatch, {})

\* " ---------------- ------------------------------": a run of ten dashes
DashLine == MkLine("dashes", <<Dash, Dash>>, NoMatch, {"----------"})

\* '                      Summary of "ao basis" -> "" (cartesian)'
BsetHeader ==
  MkLine("Summary of ao basis",
         <<W("Summary"), W("of"), W("\"ao"), W("basis\""), W("->"), W("\"\""), W("(cartesian)")>>,
         NoMatch, {"Summary of \"ao basis\""})

\* " Tag                 Description            Shells   Functions and Types"
TagRow ==
  MkLine("Tag", <<W("Tag"), W("Description"), W("Shells"), W("Functions"), W("and"), W("Types")>>,
         NoMatch, {})

\* " Tag  Description  Shells  Functions  Other  Type"
TagOtherRow ==
  MkLine("Tag", <<W("Tag"), W("Description"), W("Shells"), W("Functions"), W("Other"), W("Type")>>,
         NoMatch, {})

\* " C  description  2  3  s"
BsetRowC ==
  MkLine("bsetrow", <<W("C"), W("description"), IntTok(2), IntTok(3), W("s")>>, NoMatch, {})

\* " Tag   Description": a header row with fewer than five columns
TagShort == MkLine("Tag", <<W("Tag"), W("Description")>>, NoMatch, {})

\* " C                           6-31G                   5        9   3s2p"
BsetRow(sym) ==
  MkLine("bsetrow", <<W(sym), W("6-31G"), IntTok(5), IntTok(6), W("3s2p")>>, NoMatch, {})

\* " MASS-WEIGHTED NUCLEAR HESSIAN (Hartree/Bohr/Bohr/Kamu)"
HessHeader ==
  MkLine("MASS-WEIGHTED NUCLEAR HESSIAN", <<W("MASS-WEIGHTED"), W("NUCLEAR"), W("HESSIAN"), W("(Hartree/Bohr/Bohr/Kamu)")>>,
         NoMatch, {"MASS-WEIGHTED NUCLEAR HESSIAN"})

\* " MASS-WEIGHTED PROJECTED HESSIAN (Hartree/Bohr/Bohr/Kamu)"
ProjHessHeader ==
  MkLine("MASS-WEIGHTED PROJECTED HESSIAN", <<W("MASS-WEIGHTED"), W("PROJECTED"), W("HESSIAN"), W("(Hartree/Bohr/Bohr/Kamu)")>>,
         NoMatch, {"MASS-WEIGHTED PROJECTED HESSIAN"})

\* "          No. of atoms     :     2"
AtomsLine(n) ==
  MkLine("No. of atoms", <<W("No."), W("of"), W("atoms"), W(":"), IntTok(n)>>,
         [NoMatch EXCEPT !["pre"] = <<W("No. of atoms"), IntTok(n)>>], {})

\* "          SCF calculation type: DFT"
ScfTypeLine ==
  MkLine("SCF calculation type", <<W("SCF"), W("calculation"), W("type:"), W("DFT")>>,
         [NoMatch EXCEPT !["pre"] = <<W("SCF calculation type"), W("DFT")>>], {})

\* "                                 NWChem DFT Module"
ModuleLine == MkLine("NWChem DFT Module", <<W("NWChem"), W("DFT"), W("Module")>>, NoMatch, {})

\* " Zero-Point correction to Energy  =   1.0 kcal/mol"
CorrectionLine(v) ==
  MkLineEq("correction", <<W("Zero-Point"), W("correction"), W("to"), W("Energy"), W("="), Num(v), W("kcal/mol")>>,
           [NoMatch EXCEPT !["corr"] = <<W("Zero-Point correction to Energy"), Num(v)>>], {},
           <<"Zero-Point correction to Energy", "1.0 kcal/mol">>)

\* " NWChem thermal correction to Energy = 2.0 kcal/mol": a correction line
\* that starts with the engine's name
NamedCorrectionLine ==
  MkLineEq("NWChem thermal correction to Energy = 2.0 kcal/mol",
           <<W("NWChem"), W("thermal"), W("correction"), W("to"), W("Energy"), W("="), Num(2), W("kcal/mol")>>,
           [NoMatch EXCEPT !["corr"] = <<W("thermal correction to Energy"), Num(2)>>], {},
           <<"NWChem thermal correction to Energy", "2.0 kcal/mol">>)

Sig1 == "calculations not reaching convergence"

Sig2 == "Calculation failed to converge"

Sig4 == "dft optimize failed"

\* " Calculation failed to converge", or
\* " calculations not reaching convergence dft optimize failed": a line of
\* text holding the failure signatures sigs
SignatureLine(sigs) ==
  MkLine("failure",
         IF sigs = {Sig2}
         THEN <<W("Calculation"), W("failed"), W("to"), W("converge")>>
         ELSE <<W("calculations"), W("not"), W("reaching"), W("convergence"),
                W("dft"), W("optimize"), W("failed")>>,
         NoMatch, sigs)

\* " some other text"
TextLine == MkLine("text", <<W("some"), W("other"), W("text")>>, NoMatch, {})

\* " text": a single word
WordLine == MkLine("word", <<W("word")>>, NoMatch, {})

\* "                              COSMO solvation results"
CosmoLine ==
  MkLine("COSMO solvation results", <<W("COSMO"), W("solvation"), W("results")>>,
         NoMatch, {"COSMO solvation results"})

\* "                                 NWChem Input Module": the job boundary
MarkerLine ==
  MkLine("NWChem Input Module", <<W("NWChem"), W("Input"), W("Module")>>,
         NoMatch, {"NWChem Input Module"})

\* "                                 CITATION"
CitationLine == MkLine("CITATION", <<W("CITATION")>>, NoMatch, {"CITATION"})

\* "    input    = h2o.nw" and "    date = a = b": lines of the preamble
KeyValueLine(k, v) == MkLineEq("keyvalue", <<W(k), W("="), W(v)>>, NoMatch, {}, <<k, v>>)

KeyValue3Line(k, mid, v) ==
  MkLineEq("keyvalue3", <<W(k), W("="), W(mid), W("="), W(v)>>, NoMatch, {}, <<k, mid, v>>)

\* "2.5": a decimal float() parses; num is its value in tenths
Dec(tenths, text) == [cls |-> "float", text |-> text, num |-> tenths, dot |-> TRUE]

\* "  Convergence criterion met"
TddftStartLine ==
  MkLine("Convergence criterion met", <<W("Convergence"), W("criterion"), W("met")>>,
         NoMatch, {"Convergence criterion met"})

\* "  Excited state energy =  -76.1"
TddftEndLine ==
  MkLineEq("Excited state energy", <<W("Excited"), W("state"), W("energy"), W("="), W("-76.1")>>,
           NoMatch, {"Excited state energy"}, <<"Excited state energy", "-76.1">>)

\* "  Ground state a  singlet excited"
SingletTagLine ==
  MkLine("singlet excited", <<W("Ground"), W("state"), W("a"), W("singlet"), W("excited")>>,
         NoMatch, {"singlet excited"})

\* "  Ground state a  triplet excited"
TripletTagLine ==
  MkLine("triplet excited", <<W("Ground"), W("state"), W("a"), W("triplet"), W("excited")>>,
         NoMatch, {"triplet excited"})

\* "  Root   1 singlet a   0.09 a.u.   2.5 eV"
RootLine(tenths, text) ==
  MkLine("Root", <<W("Root"), IntTok(1), W("singlet"), W("a"), W("0.09"), W("a.u."),
                   Dec(tenths, text), W("eV")>>,
         NoMatch, {"Root", "eV"})

\* "  Root energies in eV": "Root" and "eV" without a number before the unit
RootTextLine ==
  MkLine("Root energies in eV", <<W("Root"), W("energies"), W("in"), W("eV")>>,
         NoMatch, {"Root", "eV"})

\* "     Dipole Oscillator Strength   0.3"
OscLine(tenths, text) ==
  MkLine("Dipole Oscillator Strength",
         <<W("Dipole"), W("Oscillator"), W("Strength"), Dec(tenths, text)>>,
         NoMatch, {"Dipole Oscillator Strength"})

\* ------------------------------------------------------------------ state
VARIABLES
  pc,                   \* "scan": in the loop over the lines; "done": returned; "error": raised
  exc,                  \* the exception that ended the decode, "" when none
  nread,                \* lines of the chunk fetched by the loop so far
  line,                 \* the loop variable: the line being scanned
  output_has_cosmo,     \* "COSMO solvation results" in output
  parse_hess, parse_proj_hess, hessian, projected_hessian,
  parse_force, all_forces, forces,
  data, energies, frequencies, normal_frequencies, corrections,
  molecules, structures, species, coords, lattice, errors,
  basis_set, bset_header,
  parse_geom, parse_freq, parse_bset, parse_projected_freq,
  job_type, parse_time, time,
  init_pc,              \* NwOutput.__init__: "idle" (not called), "new", "built", "error"
  init_exc,             \* the exception __init__ ended with, "" when none
  raw,                  \* self.raw: the lines of the log
  job_info,             \* self.job_info
  jobs,                 \* self.data: the job records
  tddft_pc,             \* parse_tddft: "idle", "scan" (in the while loop), "returned", "error";
                        \* get_excitation_spectrum: "spectrum" (returned)
  tddft_exc,            \* the exception the call ended with, "" when none
  tddft_lines,          \* parse_tddft: lines, the lines not yet popped
  state,                \* parse_tddft: the multiplicity label
  inside,               \* parse_tddft: inside an output block
  roots,                \* parse_tddft: label -> list of roots
  spectrum              \* the ExcitationSpectrum returned: x and y (x as numerators over
                        \* den), and the width it was asked with

docvars == <<init_pc, init_exc, raw, job_info, jobs>>

tddftvars == <<tddft_pc, tddft_exc, tddft_lines, state, inside, roots, spectrum>>

\* the variables of a _parse_job call, the current line apart
jobvars == <<pc, exc, nread, output_has_cosmo,
             parse_hess, parse_proj_hess, hessian, projected_hessian,
             parse_force, all_forces, forces,
             data, energies, frequencies, normal_frequencies, corrections,
             molecules, structures, species, coords, lattice, errors,
             basis_set, bset_header,
             parse_geom, parse_freq, parse_bset, parse_projected_freq,
             job_type, parse_time, time>>

vars == <<pc, exc, nread, line, output_has_cosmo,
          parse_hess, parse_proj_hess, hessian, projected_hessian,
          parse_force, all_forces, forces,
          data, energies, frequencies, normal_frequencies, corrections,
          molecules, structures, species, coords, lattice, errors,
          basis_set, bset_header,
          parse_geom, parse_freq, parse_bset, parse_projected_freq,
          job_type, parse_time, time, init_pc, init_exc, raw, job_info, jobs,
          tddft_pc, tddft_exc, tddft_lines, state, inside, roots, spectrum>>

\* the locals of _parse_job as one value; raised is the exception in flight
Locals ==
  [raised |-> "", output_has_cosmo |-> output_has_cosmo,
   parse_hess |-> parse_hess, parse_proj_hess |-> parse_proj_hess,
   hessian |-> hessian, projected_hessian |-> projected_hessian,
   parse_force |-> parse_force, all_forces |-> all_forces, forces |-> forces,
   data |-> data, energies |-> energies, frequencies |-> frequencies,
   normal_frequencies |-> normal_frequencies, corrections |-> corrections,
   molecules |-> molecules, structures |-> structures, species |-> species,
   coords |-> coords, lattice |-> lattice, errors |-> errors,
   basis_set |-> basis_set, bset_header |-> bset_header,
   parse_geom |-> parse_geom, parse_freq |-> parse_freq, parse_bset |-> parse_bset,
   parse_projected_freq |-> parse_projected_freq,
   job_type |-> job_type, parse_time |-> parse_time, time |-> time]

Raise(s, e) == [s EXCEPT !.raised = e]

\* ------------------------------------------------------------------ conversions
\* Energy(x, "Ha").to("eV"), in units of 1/1000 eV per unit of x
HaToEV(x) == x * 27211

\* FloatWithUnit(x, "kJ mol^-1").to("eV atom^-1"), in units of 1/1000000 eV
KJmolToEVatom(x) == x * 10364

\* an energy entry: a float, or a dict of entries
ScalarE(x) == [form |-> "scalar", value |-> x, items |-> EmptyDict]

DictE(items) == [form |-> "dict", value |-> 0, items |-> items]

\* str.capitalize() on the element symbols of the lines
Capitalize(sym) == IF sym = "c" THEN "C" ELSE sym

\* ------------------------------------------------------------------ the loop body
error_defs ==
  << [sig |-> "calculations not reaching convergence", tag |-> "Bad convergence"],
     [sig |-> "Calculation failed to converge", tag |-> "Bad convergence"],
     [sig |-> "geom_binvr: #indep variables incorrect", tag |-> "autoz error"],
     [sig |-> "dft optimize failed", tag |-> "Geometry optimization failed"] >>

RECURSIVE TagsFrom(_, _)
TagsFrom(l, i) ==
  IF i > Len(error_defs) THEN <<>>
  ELSE (IF Finds(l, error_defs[i].sig) THEN <<error_defs[i].tag>> ELSE <<>>) \o TagsFrom(l, i + 1)

\* for e, v in error_defs.items(): if line.find(e) != -1: errors.append(v)
ErrorCheckSkippedInBlock(s, l) ==
  IF s.parse_hess \/ s.parse_freq \/ s.parse_bset THEN s
  ELSE [s EXCEPT !.errors = @ \o TagsFrom(l, 1)]

ErrorCheck(s, l) == [s EXCEPT !.errors = @ \o TagsFrom(l, 1)]

\* if parse_time and (match := time_patt.search(line)): time = match[1]; parse_time = False
TimeCheckRearms(s, l) ==
  IF Match(l, "time") THEN [s EXCEPT !.time = l.m["time"][1].num] ELSE s

TimeCheck(s, l) ==
  IF s.parse_time /\ Match(l, "time")
  THEN [s EXCEPT !.time = l.m["time"][1].num, !.parse_time = FALSE]
  ELSE s

\* if parse_geom: ...
GeomBlockKeepsAtoms(s, l) ==
  IF ~s.parse_geom THEN s
  ELSE IF l.text = "Atomic Mass"
  THEN LET fin == IF s.lattice # <<>>
                  THEN [s EXCEPT !.structures = Append(@, [lattice |-> s.lattice, species |-> s.species,
                                                            coords |-> s.coords])]
                  ELSE [s EXCEPT !.molecules = Append(@, [species |-> s.species, coords |-> s.coords])]
       IN [fin EXCEPT !.lattice = <<>>, !.parse_geom = FALSE]
  ELSE LET s1 == IF Match(l, "coord")
                 THEN [s EXCEPT !.species = Append(@, Capitalize(l.m["coord"][1].text)),
                                !.coords = Append(@, Floats(SubSeq(l.m["coord"], 2, 4)))]
                 ELSE s
       IN IF Match(l, "lat") THEN [s1 EXCEPT !.lattice = Append(@, Floats(l.m["lat"]))] ELSE s1

GeomBlock(s, l) ==
  IF ~s.parse_geom THEN s
  ELSE IF l.text = "Atomic Mass"
  THEN LET fin == IF s.lattice # <<>>
                  THEN [s EXCEPT !.structures = Append(@, [lattice |-> s.lattice, species |-> s.species,
                                                            coords |-> s.coords])]
                  ELSE [s EXCEPT !.molecules = Append(@, [species |-> s.species, coords |-> s.coords])]
       IN [fin EXCEPT !.species = <<>>, !.coords = <<>>, !.lattice = <<>>, !.parse_geom = FALSE]
  ELSE LET s1 == IF Match(l, "coord")
                 THEN [s EXCEPT !.species = Append(@, Capitalize(l.m["coord"][1].text)),
                                !.coords = Append(@, Floats(SubSeq(l.m["coord"], 2, 4)))]
                 ELSE s
       IN IF Match(l, "lat") THEN [s1 EXCEPT !.lattice = Append(@, Floats(l.m["lat"]))] ELSE s1

\* if parse_force: ...
ForceBlockEndsOnAnyLine(s, l) ==
  IF Match(l, "force")
  THEN [s EXCEPT !.forces = @ \o Floats(SubSeq(l.m["force"], 6, 8))]
  ELSE [s EXCEPT !.all_forces = Append(@, s.forces), !.forces = <<>>, !.parse_force = FALSE]

ForceBlock(s, l) ==
  IF Match(l, "force")
  THEN [s EXCEPT !.forces = @ \o Floats(SubSeq(l.m["force"], 6, 8))]
  ELSE IF Len(s.forces) > 0
  THEN [s EXCEPT !.all_forces = Append(@, s.forces), !.forces = <<>>, !.parse_force = FALSE]
  ELSE s

\* for mode, dis in zip(modes[-n_vibs:], vibs, strict=False): mode[1].append(dis)
\* modes[-n:] is the whole list when n is 0 or exceeds its length
DistributeFromFirst(modes, vibs) ==
  [i \in 1..Len(modes) |->
     IF i <= Len(vibs) THEN [modes[i] EXCEPT !.disp = Append(@, vibs[i])] ELSE modes[i]]

Distribute(modes, vibs) ==
  LET n == Len(vibs)
      first == IF n = 0 \/ n > Len(modes) THEN 1 ELSE Len(modes) - n + 1
  IN [i \in 1..Len(modes) |->
        IF i >= first /\ i - first + 1 <= n
        THEN [modes[i] EXCEPT !.disp = Append(@, vibs[i - first + 1])]
        ELSE modes[i]]

\* elif parse_freq: ... and elif parse_projected_freq: ..., on the list named by fld
FreqBlock(s, l, fld, flag) ==
  IF l.text = ""
  THEN IF s[fld].val = <<>> THEN Raise(s, "IndexError")
       ELSE IF Len(Last(s[fld].val).disp) = 0 THEN s
       ELSE [s EXCEPT ![flag] = FALSE]
  ELSE IF ~AllFloatOk(Tail1(l.toks)) THEN Raise(s, "ValueError")
  ELSE [s EXCEPT ![fld] = Some(Distribute(s[fld].val, Floats(Tail1(l.toks))))]

\* str.lower() on the column names of the header rows
Lower(w) ==
  IF w = "Tag" THEN "tag"
  ELSE IF w = "Description" THEN "description"
  ELSE IF w = "Shells" THEN "shells"
  ELSE IF w = "Functions" THEN "functions"
  ELSE IF w = "Types" THEN "types"
  ELSE IF w = "Other" THEN "other"
  ELSE IF w = "Type" THEN "type"
  ELSE w

BsetBlockKeepsFifth(s, l) ==
  IF l.text = "" THEN [s EXCEPT !.parse_bset = FALSE]
  ELSE LET tokens == l.toks
       IN IF tokens[1].text # "Tag" /\ tokens[1].cls # "dash"
          THEN LET hdr == Tail1(s.bset_header)
                   n == Min2(Len(hdr), Len(tokens) - 1)
               IN [s EXCEPT !.basis_set =
                     Merge(@, [k \in {tokens[1].text} |->
                                 [i \in 1..n |-> [key |-> hdr[i], value |-> tokens[i + 1].text]]])]
          ELSE IF tokens[1].text = "Tag"
          THEN [s EXCEPT !.bset_header = [i \in 1..Len(tokens) |-> Lower(tokens[i].text)]]
          ELSE s

\* elif parse_bset: ...
BsetBlock(s, l) ==
  IF l.text = "" THEN [s EXCEPT !.parse_bset = FALSE]
  ELSE LET tokens == l.toks
       IN IF tokens[1].text # "Tag" /\ tokens[1].cls # "dash"
          THEN LET hdr == Tail1(s.bset_header)
                   n == Min2(Len(hdr), Len(tokens) - 1)
               IN [s EXCEPT !.basis_set =
                     Merge(@, [k \in {tokens[1].text} |->
                                 [i \in 1..n |-> [key |-> hdr[i], value |-> tokens[i + 1].text]]])]
          ELSE IF tokens[1].text = "Tag"
          THEN IF Len(tokens) < 5 THEN Raise(s, "IndexError")
               ELSE [s EXCEPT !.bset_header =
                       [i \in 1..(Len(tokens) - 1) |->
                          Lower(IF i < 5 THEN tokens[i].text ELSE tokens[i + 1].text)]]
          ELSE s

\* the rows of a hessian after a data line: hess[row - 1].extend(vals), or append;
\* index -1 is the last row
AddRow(hess, row, vals) ==
  IF Len(hess) < row THEN Append(hess, vals)
  ELSE [hess EXCEPT ![IF row = 0 THEN Len(hess) ELSE row] = @ \o vals]

\* a data line of a hessian block: the checks of lines 803-810 and 821-828
\* "skip": the line is passed over; "bad": float() raises; "row": it is a data line
RowKind(l) ==
  LET tokens == l.toks
  IN IF Len(tokens) <= 1 THEN "skip"
     ELSE IF ~IntOk(tokens[1]) THEN "skip"
     ELSE IF isfloatstring(tokens[2]) THEN "skip"
     ELSE IF ~AllFloatOk([i \in 1..(Len(tokens) - 1) |-> fort2py(tokens[i + 1])]) THEN "bad"
     ELSE "row"

RowVals(l) == Floats([i \in 1..(Len(l.toks) - 1) |-> fort2py(l.toks[i + 1])])

\* elif parse_hess: ...
HessBlock(s, l) ==
  IF l.text = "" THEN s
  ELSE IF Len(s.hessian.val) > 0 /\ Finds(l, "----------") THEN [s EXCEPT !.parse_hess = FALSE]
  ELSE IF RowKind(l) = "skip" THEN s
  ELSE IF RowKind(l) = "bad" THEN Raise(s, "ValueError")
  ELSE LET row == l.toks[1].num
       IN IF row = 0 /\ s.hessian.val = <<>> THEN Raise(s, "IndexError")
          ELSE [s EXCEPT !.hessian = Some(AddRow(s.hessian.val, row, RowVals(l)))]

\* elif parse_proj_hess: ...
ProjHessBlockChecksLineRow(s, l) ==
  IF l.text = "" THEN s
  ELSE IF ~s.hessian.some THEN Raise(s, "TypeError")
  ELSE IF RowKind(l) = "skip" THEN s
  ELSE IF RowKind(l) = "bad" THEN Raise(s, "ValueError")
  ELSE LET row == l.toks[1].num
           nat3 == Len(s.hessian.val)
       IN IF row = 0 /\ s.projected_hessian.val = <<>> THEN Raise(s, "IndexError")
          ELSE LET ph == AddRow(s.projected_hessian.val, row, RowVals(l))
               IN [s EXCEPT !.projected_hessian = Some(ph),
                            !.parse_proj_hess =
                               IF Len(ph[IF row = 0 \/ row > Len(ph) THEN Len(ph) ELSE row]) = nat3
                               THEN FALSE ELSE @]

ProjHessBlock(s, l) ==
  IF l.text = "" THEN s
  ELSE IF ~s.hessian.some THEN Raise(s, "TypeError")
  ELSE IF RowKind(l) = "skip" THEN s
  ELSE IF RowKind(l) = "bad" THEN Raise(s, "ValueError")
  ELSE LET row == l.toks[1].num
           nat3 == Len(s.hessian.val)
       IN IF row = 0 /\ s.projected_hessian.val = <<>> THEN Raise(s, "IndexError")
          ELSE LET ph == AddRow(s.projected_hessian.val, row, RowVals(l))
               IN [s EXCEPT !.projected_hessian = Some(ph),
                            !.parse_proj_hess = IF Len(Last(ph)) = nat3 THEN FALSE ELSE @]

\* k = match[1].replace("No. of ", "n").replace(" ", "_"); k.lower()
PreambleKey(t) ==
  IF t = "No. of atoms" THEN "natoms"
  ELSE IF t = "No. of electrons" THEN "nelectrons"
  ELSE IF t = "SCF calculation type" THEN "scf_calculation_type"
  ELSE IF t = "Charge" THEN "charge"
  ELSE "spin_multiplicity"

\* the chain from "if match := preamble_patt.search(line)" to the corrections
Headers(s, l) ==
  IF Match(l, "pre")
  THEN LET tok == l.m["pre"][2]
       IN [s EXCEPT !.data = Merge(@, [k \in {PreambleKey(l.m["pre"][1].text)} |->
                                         IF IntOk(tok) THEN tok.num ELSE tok.text])]
  ELSE IF Finds(l, "Geometry \"geometry\"") THEN [s EXCEPT !.parse_geom = TRUE]
  ELSE IF Finds(l, "Summary of \"ao basis\"") THEN [s EXCEPT !.parse_bset = TRUE]
  ELSE IF Finds(l, "P.Frequency")
  THEN IF ~AllFloatOk(Tail1(l.toks))
       THEN Raise([s EXCEPT !.parse_projected_freq = TRUE, !.frequencies = Some(@.val)], "ValueError")
       ELSE [s EXCEPT !.parse_projected_freq = TRUE,
                      !.frequencies = Some(@.val \o [i \in 1..(Len(l.toks) - 1) |->
                                                       [freq |-> l.toks[i + 1].num, disp |-> <<>>]])]
  ELSE IF Finds(l, "Frequency")
  THEN IF Len(l.toks) > 1 /\ l.toks[1].text = "Frequency"
       THEN IF ~AllFloatOk(Tail1(l.toks))
            THEN Raise([s EXCEPT !.parse_freq = TRUE, !.normal_frequencies = Some(@.val)], "ValueError")
            ELSE [s EXCEPT !.parse_freq = TRUE,
                           !.normal_frequencies = Some(@.val \o [i \in 1..(Len(l.toks) - 1) |->
                                                                   [freq |-> l.toks[i + 1].num, disp |-> <<>>]])]
       ELSE s
  ELSE IF Finds(l, "MASS-WEIGHTED NUCLEAR HESSIAN")
  THEN [s EXCEPT !.parse_hess = TRUE, !.hessian = IF Truthy(@) THEN @ ELSE Some(<<>>)]
  ELSE IF Finds(l, "MASS-WEIGHTED PROJECTED HESSIAN")
  THEN [s EXCEPT !.parse_proj_hess = TRUE, !.projected_hessian = IF Truthy(@) THEN @ ELSE Some(<<>>)]
  ELSE IF Finds(l, "atom               coordinates                        gradient")
  THEN [s EXCEPT !.parse_force = TRUE]
  ELSE IF s.job_type = "" /\ l.toks # <<>> /\ l.toks[1].text = "NWChem"
  THEN [s EXCEPT !.job_type = IF l.text = "NWChem DFT Module" /\ s.output_has_cosmo
                              THEN "NWChem DFT Module COSMO" ELSE l.text]
  ELSE IF Match(l, "corr")
  THEN [s EXCEPT !.corrections = Merge(@, [k \in {l.m["corr"][1].text} |->
                                             KJmolToEVatom(l.m["corr"][2].num)])]
  ELSE s

GasPhaseAppends(s, l) ==
  IF ~Match(l, "gas") THEN s
  ELSE IF s.energies = <<>> THEN Raise(s, "IndexError")
  ELSE [s EXCEPT !.energies =
          Append(@, DictE([k \in {"cosmo scf", "gas phase"} |->
                             IF k = "cosmo scf" THEN Last(s.energies)
                             ELSE ScalarE(HaToEV(l.m["gas"][1].num))]))]

\* if match := energy_gas_patt.search(line): ...
GasPhase(s, l) ==
  IF ~Match(l, "gas") THEN s
  ELSE IF s.energies = <<>> THEN Raise(s, "IndexError")
  ELSE [s EXCEPT !.energies[Len(s.energies)] =
          DictE([k \in {"cosmo scf", "gas phase"} |->
                   IF k = "cosmo scf" THEN Last(s.energies)
                   ELSE ScalarE(HaToEV(l.m["gas"][1].num))])]

\* if match := energy_sol_patt.search(line): energies[-1] |= {...}
SolPhase(s, l) ==
  IF ~Match(l, "sol") THEN s
  ELSE IF s.energies = <<>> THEN Raise(s, "IndexError")
  ELSE IF Last(s.energies).form # "dict" THEN Raise(s, "TypeError")
  ELSE [s EXCEPT !.energies[Len(s.energies)] =
          DictE(Merge(Last(s.energies).items,
                      [k \in {"sol phase"} |-> ScalarE(HaToEV(l.m["sol"][1].num))]))]

\* the else branch: the single-line triggers
Idle(s, l) ==
  IF Match(l, "energy")
  THEN [s EXCEPT !.energies = Append(@, ScalarE(HaToEV(l.m["energy"][1].num))), !.parse_time = TRUE]
  ELSE LET s1 == GasPhase(s, l)
           s2 == IF s1.raised # "" THEN s1 ELSE SolPhase(s1, l)
       IN IF s2.raised # "" THEN s2 ELSE Headers(s2, l)

BlockChainIdleAlways(s, l) ==
  LET b == IF s.parse_force THEN ForceBlock(s, l)
           ELSE IF s.parse_freq THEN FreqBlock(s, l, "normal_frequencies", "parse_freq")
           ELSE IF s.parse_projected_freq THEN FreqBlock(s, l, "frequencies", "parse_projected_freq")
           ELSE IF s.parse_bset THEN BsetBlock(s, l)
           ELSE IF s.parse_hess THEN HessBlock(s, l)
           ELSE IF s.parse_proj_hess THEN ProjHessBlock(s, l)
           ELSE s
  IN IF b.raised # "" THEN b ELSE Idle(b, l)

\* if parse_force: ... elif parse_freq: ... else: ...
BlockChain(s, l) ==
  IF s.parse_force THEN ForceBlock(s, l)
  ELSE IF s.parse_freq THEN FreqBlock(s, l, "normal_frequencies", "parse_freq")
  ELSE IF s.parse_projected_freq THEN FreqBlock(s, l, "frequencies", "parse_projected_freq")
  ELSE IF s.parse_bset THEN BsetBlock(s, l)
  ELSE IF s.parse_hess THEN HessBlock(s, l)
  ELSE IF s.parse_proj_hess THEN ProjHessBlock(s, l)
  ELSE Idle(s, l)

\* one pass of the loop body over line l
LoopBody(s, l) == BlockChain(GeomBlock(TimeCheck(ErrorCheck(s, l), l), l), l)

\* ------------------------------------------------------------------ after the loop
\* mode[:] = zip(*[iter(mode)] * 3, strict=False): consecutive triples, a rest of
\* one or two values is dropped
TriplesKeepRest(d) ==
  [k \in 1..((Len(d) + 2) \div 3) |-> SubSeq(d, 3 * k - 2, Min2(3 * k, Len(d)))]

Triples(d) == [k \in 1..(Len(d) \div 3) |-> <<d[3 * k - 2], d[3 * k - 1], d[3 * k]>>]

Reshape(modes) ==
  IF Truthy(modes)
  THEN Some([i \in 1..Len(modes.val) |-> [modes.val[i] EXCEPT !.disp = Triples(@)]])
  ELSE modes

\* hessian[ii].append(hessian[jj][ii]) for jj > ii reads past the end of row jj
SymmetrizeRaises(h) ==
  \E ii \in 1..Len(h) : \E jj \in (ii + 1)..Len(h) : Len(h[jj]) < ii

SymmetrizeLowerOnly(h) == h

Symmetrize(h) ==
  [ii \in 1..Len(h) |-> h[ii] \o [k \in 1..(Len(h) - ii) |-> h[ii + k][ii]]]

SymmetrizeOpt(o) == IF Truthy(o) THEN Some(Symmetrize(o.val)) ELSE o

\* data |= {...}
JobRecord(s) ==
  Merge(s.data,
        [job_type |-> s.job_type, energies |-> s.energies, corrections |-> s.corrections,
         molecules |-> s.molecules, structures |-> s.structures, basis_set |-> s.basis_set,
         errors |-> s.errors, has_error |-> Len(s.errors) > 0,
         frequencies |-> Reshape(s.frequencies),
         normal_frequencies |-> Reshape(s.normal_frequencies),
         hessian |-> SymmetrizeOpt(s.hessian),
         projected_hessian |-> SymmetrizeOpt(s.projected_hessian),
         forces |-> s.all_forces, task_time |-> s.time])

\* lines 896-911 raise
FinishRaises(s) ==
  \/ (Truthy(s.hessian) /\ SymmetrizeRaises(s.hessian.val))
  \/ (Truthy(s.projected_hessian) /\ SymmetrizeRaises(s.projected_hessian.val))

\* the locals at line 702-727
InitLocals(cosmo) ==
  [raised |-> "", output_has_cosmo |-> cosmo,
   parse_hess |-> FALSE, parse_proj_hess |-> FALSE,
   hessian |-> None, projected_hessian |-> None,
   parse_force |-> FALSE, all_forces |-> <<>>, forces |-> <<>>,
   data |-> EmptyDict, energies |-> <<>>, frequencies |-> None,
   normal_frequencies |-> None, corrections |-> EmptyDict,
   molecules |-> <<>>, structures |-> <<>>, species |-> <<>>,
   coords |-> <<>>, lattice |-> <<>>, errors |-> <<>>,
   basis_set |-> EmptyDict, bset_header |-> <<>>,
   parse_geom |-> FALSE, parse_freq |-> FALSE, parse_bset |-> FALSE,
   parse_projected_freq |-> FALSE,
   job_type |-> "", parse_time |-> FALSE, time |-> 0]

\* ------------------------------------------------------------------ actions
\* _parse_job is entered: no line fetched yet, the locals as initialised
InitJob(cosmo) ==
  LET r == InitLocals(cosmo)
  IN /\ pc = "scan" /\ exc = "" /\ nread = 0 /\ line = BlankLine
     /\ output_has_cosmo = cosmo
     /\ parse_hess = r.parse_hess /\ parse_proj_hess = r.parse_proj_hess
     /\ hessian = r.hessian /\ projected_hessian = r.projected_hessian
     /\ parse_force = r.parse_force /\ all_forces = r.all_forces /\ forces = r.forces
     /\ data = r.data /\ energies = r.energies
     /\ frequencies = r.frequencies /\ normal_frequencies = r.normal_frequencies
     /\ corrections = r.corrections
     /\ molecules = r.molecules /\ structures = r.structures
     /\ species = r.species /\ coords = r.coords /\ lattice = r.lattice
     /\ errors = r.errors /\ basis_set = r.basis_set /\ bset_header = r.bset_header
     /\ parse_geom = r.parse_geom /\ parse_freq = r.parse_freq /\ parse_bset = r.parse_bset
     /\ parse_projected_freq = r.parse_projected_freq
     /\ job_type = r.job_type /\ parse_time = r.parse_time /\ time = r.time

\* the locals as the loop body leaves them
Assign(r) ==
  /\ parse_hess' = r.parse_hess /\ parse_proj_hess' = r.parse_proj_hess
  /\ hessian' = r.hessian /\ projected_hessian' = r.projected_hessian
  /\ parse_force' = r.parse_force /\ all_forces' = r.all_forces /\ forces' = r.forces
  /\ data' = r.data /\ energies' = r.energies
  /\ frequencies' = r.frequencies /\ normal_frequencies' = r.normal_frequencies
  /\ corrections' = r.corrections
  /\ molecules' = r.molecules /\ structures' = r.structures
  /\ species' = r.species /\ coords' = r.coords /\ lattice' = r.lattice
  /\ errors' = r.errors /\ basis_set' = r.basis_set /\ bset_header' = r.bset_header
  /\ parse_geom' = r.parse_geom /\ parse_freq' = r.parse_freq /\ parse_bset' = r.parse_bset
  /\ parse_projected_freq' = r.parse_projected_freq
  /\ job_type' = r.job_type /\ parse_time' = r.parse_time /\ time' = r.time

\* for line in output.split("\n"): one iteration, on line l; an exception
\* leaves the loop with the locals as they were when it was raised
ScanLine(l, max) ==
  /\ pc = "scan" /\ nread < max
  /\ line' = l /\ nread' = nread + 1
  /\ LET r == LoopBody(Locals, l)
     IN /\ Assign(r)
        /\ exc' = r.raised
        /\ pc' = IF r.raised = "" THEN "scan" ELSE "error"
  /\ UNCHANGED output_has_cosmo
  /\ UNCHANGED docvars
  /\ UNCHANGED tddftvars

\* the loop is over (split() yields at least one line): lines 896-928.  The
\* returned record is data; the other locals are left as the loop ended.
Finish ==
  /\ pc = "scan" /\ nread >= 1
  /\ IF FinishRaises(Locals)
     THEN pc' = "error" /\ exc' = "IndexError" /\ UNCHANGED data
     ELSE pc' = "done" /\ exc' = "" /\ data' = JobRecord(Locals)
  /\ UNCHANGED docvars
  /\ UNCHANGED tddftvars
  /\ UNCHANGED <<nread, line, output_has_cosmo,
                 parse_hess, parse_proj_hess, hessian, projected_hessian,
                 parse_force, all_forces, forces,
                 energies, frequencies, normal_frequencies, corrections,
                 molecules, structures, species, coords, lattice, errors,
                 basis_set, bset_header,
                 parse_geom, parse_freq, parse_bset, parse_projected_freq,
                 job_type, parse_time, time>>

\* ------------------------------------------------------------------ the constructor
\* _parse_job(output) as a function: the loop over lines from position i on
RECURSIVE ScanFrom(_, _, _)
ScanFrom(s, lines, i) ==
  IF i > Len(lines) \/ s.raised # "" THEN s
  ELSE ScanFrom(LoopBody(s, lines[i]), lines, i + 1)

ParseJob(lines) ==
  LET cosmo == \E i \in 1..Len(lines) : Finds(lines[i], "COSMO solvation results")
      s == ScanFrom(InitLocals(cosmo), lines, 1)
  IN IF s.raised # "" THEN [raised |-> s.raised, record |-> EmptyDict]
     ELSE IF FinishRaises(s) THEN [raised |-> "IndexError", record |-> EmptyDict]
     ELSE [raised |-> "", record |-> JobRecord(s)]

RECURSIVE ParsePreambleSecondToken(_, _, _)
ParsePreambleSecondToken(info, lines, i) ==
  IF i > Len(lines) THEN info
  ELSE LET tokens == lines[i].eq
       IN ParsePreambleSecondToken(IF Len(tokens) > 1
                                   THEN Merge(info, [k \in {tokens[1]} |-> tokens[2]])
                                   ELSE info,
                                   lines, i + 1)

\* _parse_preamble: tokens = line.split("="); info[tokens[0].strip()] = tokens[-1].strip()
RECURSIVE ParsePreambleFrom(_, _, _)
ParsePreambleFrom(info, lines, i) ==
  IF i > Len(lines) THEN info
  ELSE LET tokens == lines[i].eq
       IN ParsePreambleFrom(IF Len(tokens) > 1
                            THEN Merge(info, [k \in {tokens[1]} |-> Last(tokens)])
                            ELSE info,
                            lines, i + 1)

PreambleSecondToken(preamble) == ParsePreambleSecondToken(EmptyDict, preamble, 1)

_parse_preamble(preamble) == ParsePreambleFrom(EmptyDict, preamble, 1)

IsMarker(l) == Finds(l, "NWChem Input Module")

\* re.split(r"NWChem Input Module", data): the lines before the first marker,
\* then one chunk per marker.  A marker stands on a line of its own, so the
\* chunk after it starts with the empty rest of that line, and a chunk before
\* a marker ends with the blank start of the marker's line.
RECURSIVE SplitFrom(_, _, _, _)
SplitFrom(lines, i, cur, acc) ==
  IF i > Len(lines) THEN Append(acc, cur)
  ELSE IF IsMarker(lines[i])
  THEN SplitFrom(lines, i + 1, <<BlankLine>>, Append(acc, Append(cur, BlankLine)))
  ELSE SplitFrom(lines, i + 1, Append(cur, lines[i]), acc)

Split(lines) == SplitFrom(lines, 1, <<>>, <<>>)

HasCitation(chunk) == \E i \in 1..Len(chunk) : Finds(chunk[i], "CITATION")

\* chunks after "if re.search(r'CITATION', chunks[-1]): chunks.pop()"
DropCitationAlways(chunks) == SubSeq(chunks, 1, Len(chunks) - 1)

DropCitation(chunks) ==
  IF HasCitation(Last(chunks)) THEN SubSeq(chunks, 1, Len(chunks) - 1) ELSE chunks

\* NwOutput.__init__ on the text raw
Construct ==
  /\ init_pc = "new"
  /\ LET chunks == DropCitation(Split(raw))
     IN IF chunks = <<>>
        THEN \* preamble = chunks.pop(0) on an empty list
             init_pc' = "error" /\ init_exc' = "IndexError" /\ UNCHANGED <<job_info, jobs>>
        ELSE LET preamble == Head(chunks)
                 parsed == [i \in 1..(Len(chunks) - 1) |-> ParseJob(chunks[i + 1])]
             IN IF \E i \in 1..Len(parsed) : parsed[i].raised # ""
                THEN /\ init_pc' = "error"
                     /\ init_exc' = parsed[CHOOSE i \in 1..Len(parsed) :
                                             /\ parsed[i].raised # ""
                                             /\ \A j \in 1..(i - 1) : parsed[j].raised = ""].raised
                     /\ job_info' = _parse_preamble(preamble)
                     /\ UNCHANGED jobs
                ELSE /\ init_pc' = "built" /\ init_exc' = ""
                     /\ job_info' = _parse_preamble(preamble)
                     /\ jobs' = [i \in 1..Len(parsed) |-> parsed[i].record]
  /\ UNCHANGED raw
  /\ UNCHANGED tddftvars
  /\ UNCHANGED <<pc, exc, nread, line, output_has_cosmo,
                 parse_hess, parse_proj_hess, hessian, projected_hessian,
                 parse_force, all_forces, forces,
                 data, energies, frequencies, normal_frequencies, corrections,
                 molecules, structures, species, coords, lattice, errors,
                 basis_set, bset_header,
                 parse_geom, parse_freq, parse_bset, parse_projected_freq,
                 job_type, parse_time, time>>

\* ------------------------------------------------------------------ the constructor, job by job
\* chunks after the citation drop: the preamble first, then the job chunks
Chunks == DropCitation(Split(raw))

\* the chunks handed to _parse_job, in order
JobChunks == IF Chunks = <<>> THEN <<>> ELSE Tail(Chunks)

\* "COSMO solvation results" in output
ChunkHasCosmo(chunk) == \E i \in 1..Len(chunk) : Finds(chunk[i], "COSMO solvation results")

\* the chunk the running _parse_job call was given
CurrentChunk == JobChunks[Len(jobs) + 1]

\* _parse_job is called on chunk: its locals are created afresh, lines 702-727
CallParseJob(chunk) ==
  /\ pc' = "scan" /\ exc' = "" /\ nread' = 0 /\ line' = BlankLine
  /\ output_has_cosmo' = ChunkHasCosmo(chunk)
  /\ Assign(InitLocals(ChunkHasCosmo(chunk)))

\* lines 557-566: the text is split, the preamble parsed, and the list
\* comprehension of line 567 calls _parse_job on the first job chunk
BeginDecode ==
  /\ init_pc = "new"
  /\ IF Chunks = <<>>
     THEN /\ init_pc' = "error" /\ init_exc' = "IndexError"
          /\ UNCHANGED <<job_info, jobs>> /\ UNCHANGED jobvars /\ UNCHANGED line
     ELSE /\ job_info' = _parse_preamble(Head(Chunks))
          /\ UNCHANGED <<init_exc, jobs>>
          /\ IF JobChunks = <<>>
             THEN init_pc' = "built" /\ UNCHANGED jobvars /\ UNCHANGED line
             ELSE init_pc' = "decoding" /\ CallParseJob(JobChunks[1])
  /\ UNCHANGED raw
  /\ UNCHANGED tddftvars

\* one iteration of the loop of the running _parse_job call
DecodeLine ==
  /\ init_pc = "decoding" /\ pc = "scan" /\ nread < Len(CurrentChunk)
  /\ ScanLine(CurrentChunk[nread + 1], Len(CurrentChunk))

\* the running _parse_job call reaches the end of its chunk and returns, or raises
ReturnJob ==
  /\ init_pc = "decoding" /\ pc = "scan" /\ nread = Len(CurrentChunk)
  /\ Finish

\* an exception of _parse_job leaves the constructor
ConstructorRaises ==
  /\ init_pc = "decoding" /\ pc = "error"
  /\ init_pc' = "error" /\ init_exc' = exc
  /\ UNCHANGED <<raw, job_info, jobs>>
  /\ UNCHANGED jobvars /\ UNCHANGED line
  /\ UNCHANGED tddftvars

\* the record returned is collected; _parse_job is called on the next
\* chunk, or self.data is complete
EnterJobKeepsLocals ==
  /\ init_pc = "decoding" /\ pc = "done"
  /\ jobs' = Append(jobs, data)
  /\ IF Len(jobs) + 1 = Len(JobChunks)
     THEN init_pc' = "built" /\ UNCHANGED jobvars /\ UNCHANGED line
     ELSE /\ init_pc' = "decoding"
          /\ pc' = "scan" /\ exc' = "" /\ nread' = 0 /\ line' = BlankLine
          /\ output_has_cosmo' = ChunkHasCosmo(JobChunks[Len(jobs) + 2])
          /\ Assign([Locals EXCEPT !.data = EmptyDict])
  /\ UNCHANGED <<init_exc, raw, job_info>>
  /\ UNCHANGED tddftvars

EnterJob ==
  /\ init_pc = "decoding" /\ pc = "done"
  /\ jobs' = Append(jobs, data)
  /\ IF Len(jobs) + 1 = Len(JobChunks)
     THEN init_pc' = "built" /\ UNCHANGED jobvars /\ UNCHANGED line
     ELSE init_pc' = "decoding" /\ CallParseJob(JobChunks[Len(jobs) + 2])
  /\ UNCHANGED <<init_exc, raw, job_info>>
  /\ UNCHANGED tddftvars

\* ------------------------------------------------------------------ parse_tddft

\* the locals of parse_tddft as one value; raised is the exception in flight
TddftLocals == [raised |-> "", state |-> state, inside |-> inside, roots |-> roots]

\* {"energy": float(tokens[-2])}: a root without the key "osc_strength"
NewRoot(e) == [energy |-> e, has_osc |-> FALSE, osc_strength |-> 0]

\* roots[state][-1]["osc_strength"] = osc
SetOsc(rs, osc) ==
  [rs EXCEPT ![Len(rs)] = [energy |-> Last(rs).energy, has_osc |-> TRUE, osc_strength |-> osc]]

\* the body of the while loop on line l: lines 590-609
TddftBodyIgnoresInside(s, l) ==
  IF Finds(l, "Convergence criterion met") THEN [s EXCEPT !.inside = TRUE]
  ELSE IF Finds(l, "Excited state energy") THEN [s EXCEPT !.inside = FALSE]
  ELSE IF Finds(l, "singlet excited") THEN [s EXCEPT !.state = "singlet"]
  ELSE IF Finds(l, "triplet excited") THEN [s EXCEPT !.state = "triplet"]
  ELSE IF Finds(l, "Root") /\ Finds(l, "eV")
  THEN LET tokens == l.toks
       IN IF Len(tokens) < 2 THEN Raise(s, "IndexError")
          ELSE IF ~FloatOk(tokens[Len(tokens) - 1]) THEN Raise(s, "ValueError")
          ELSE [s EXCEPT !.roots = [s.roots EXCEPT ![s.state] =
                                      Append(@, NewRoot(tokens[Len(tokens) - 1].num))]]
  ELSE IF s.inside /\ Finds(l, "Dipole Oscillator Strength")
  THEN IF ~FloatOk(Last(l.toks)) THEN Raise(s, "ValueError")
       ELSE IF s.roots[s.state] = <<>> THEN Raise(s, "IndexError")
       ELSE [s EXCEPT !.roots = [s.roots EXCEPT ![s.state] = SetOsc(@, Last(l.toks).num)]]
  ELSE s

TddftBody(s, l) ==
  IF Finds(l, "Convergence criterion met") THEN [s EXCEPT !.inside = TRUE]
  ELSE IF Finds(l, "Excited state energy") THEN [s EXCEPT !.inside = FALSE]
  ELSE IF Finds(l, "singlet excited") THEN [s EXCEPT !.state = "singlet"]
  ELSE IF Finds(l, "triplet excited") THEN [s EXCEPT !.state = "triplet"]
  ELSE IF s.inside /\ Finds(l, "Root") /\ Finds(l, "eV")
  THEN LET tokens == l.toks
       IN IF Len(tokens) < 2 THEN Raise(s, "IndexError")
          ELSE IF ~FloatOk(tokens[Len(tokens) - 1]) THEN Raise(s, "ValueError")
          ELSE [s EXCEPT !.roots = [s.roots EXCEPT ![s.state] =
                                      Append(@, NewRoot(tokens[Len(tokens) - 1].num))]]
  ELSE IF s.inside /\ Finds(l, "Dipole Oscillator Strength")
  THEN IF ~FloatOk(Last(l.toks)) THEN Raise(s, "ValueError")
       ELSE IF s.roots[s.state] = <<>> THEN Raise(s, "IndexError")
       ELSE [s EXCEPT !.roots = [s.roots EXCEPT ![s.state] = SetOsc(@, Last(l.toks).num)]]
  ELSE s

\* while lines: line = lines.pop(0).strip(); ...
TddftLine ==
  /\ tddft_pc = "scan" /\ tddft_lines # <<>>
  /\ line' = Head(tddft_lines) /\ tddft_lines' = Tail(tddft_lines)
  /\ LET r == TddftBody(TddftLocals, Head(tddft_lines))
     IN /\ state' = r.state /\ inside' = r.inside /\ roots' = r.roots
        /\ tddft_exc' = r.raised
        /\ tddft_pc' = IF r.raised = "" THEN "scan" ELSE "error"
  /\ UNCHANGED spectrum
  /\ UNCHANGED docvars
  /\ UNCHANGED jobvars

\* return roots
TddftReturn ==
  /\ tddft_pc = "scan" /\ tddft_lines = <<>>
  /\ tddft_pc' = "returned"
  /\ UNCHANGED <<tddft_exc, tddft_lines, state, inside, roots, spectrum, line>>
  /\ UNCHANGED docvars
  /\ UNCHANGED jobvars

\* parse_tddft on a list of lines, as a function
RECURSIVE TddftFrom(_, _, _)
TddftFrom(s, ls, i) ==
  IF i > Len(ls) \/ s.raised # "" THEN s
  ELSE TddftFrom(TddftBody(s, ls[i]), ls, i + 1)

parse_tddft(ls) ==
  TddftFrom([raised |-> "", state |-> "singlet", inside |-> FALSE,
             roots |-> [singlet |-> <<>>, triplet |-> <<>>]], ls, 1)

\* ------------------------------------------------------------------ get_excitation_spectrum
Abs(a) == IF a < 0 THEN 0 - a ELSE a

Max2(a, b) == IF a >= b THEN a ELSE b

\* The spectrum of the singlet roots (data in the source).  Energies and width are in tenths of
\* an eV.  The grid step de = (emax - emin) / npoints is a fraction, so the
\* grid energies are kept as numerators over den = npoints:
\* x[ie] / den = emin + (ie - 1) * de.  y[ie] is kept as the set of roots whose
\* terms are summed at grid point ie, those with abs(xx0) <= cutoff.
get_excitation_spectrum(singlets, width, npoints) ==
  IF \E i \in 1..Len(singlets) : ~singlets[i].has_osc
  THEN [raised |-> "KeyError", x |-> <<>>, y |-> <<>>, den |-> 1]
  ELSE IF singlets = <<>>
  THEN [raised |-> "IndexError", x |-> <<>>, y |-> <<>>, den |-> 1]
  ELSE LET en == [i \in 1..Len(singlets) |-> singlets[i].energy]
           epad == 20 * width
           emin == en[1] - epad
           emax == Last(en) + epad
           span == emax - emin
           x == [ie \in 1..npoints |-> emin * npoints + (ie - 1) * span]
           width2 == Max2(width * npoints, 2 * span)
           cutoff == 20 * width2
           y == [ie \in 1..npoints |->
                   {j \in 1..Len(en) : Abs(x[ie] - en[j] * npoints) <= cutoff}]
       IN [raised |-> "", x |-> x, y |-> y, den |-> npoints]

\* get_excitation_spectrum(width, npoints), after its call of parse_tddft returned
Spectrum(width, npoints) ==
  /\ tddft_pc = "returned"
  /\ LET r == get_excitation_spectrum(roots.singlet, width, npoints)
     IN IF r.raised # ""
        THEN tddft_pc' = "error" /\ tddft_exc' = r.raised /\ UNCHANGED spectrum
        ELSE /\ tddft_pc' = "spectrum" /\ tddft_exc' = ""
             /\ spectrum' = [x |-> r.x, y |-> r.y, den |-> r.den, width |-> width]
  /\ UNCHANGED <<tddft_lines, state, inside, roots, line>>
  /\ UNCHANGED docvars
  /\ UNCHANGED jobvars

\* ------------------------------------------------------------------ specifications
\* a job chunk of any recognised lines
JobLines ==
  {EnergyLine(1), GasLine(2), SolLine(3), TimeLine(1), TimeLine(2), CorrectionLine(1),
   GeomHeader, CoordLine("c", 1), LatticeLine, AtomicMassLine,
   ForceHeader, ForceRow(1), BlankLine,
   FreqHeader(<<1>>), PFreqHeader(<<1>>), NumRow(1, <<1>>),
   BsetHeader, HessHeader, ProjHessHeader, HessRow(1, <<1>>), DashLine,
   SignatureLine({Sig2}), SignatureLine({Sig1, Sig4}), ModuleLine, AtomsLine(2),
   NamedCorrectionLine}

\* no constructor runs while one job chunk is decoded on its own
NoDocument ==
  init_pc = "idle" /\ init_exc = "" /\ raw = <<>> /\ job_info = EmptyDict /\ jobs = <<>>

\* parse_tddft is not called
NoTddft ==
  /\ tddft_pc = "idle" /\ tddft_exc = "" /\ tddft_lines = <<>> /\ state = "singlet" /\ inside = FALSE
  /\ roots = [singlet |-> <<>>, triplet |-> <<>>]
  /\ spectrum = [x |-> <<>>, y |-> <<>>, den |-> 1, width |-> 0]

Init == NoDocument /\ NoTddft /\ \E cosmo \in BOOLEAN : InitJob(cosmo)

Next == (\E l \in JobLines : ScanLine(l, MaxLines)) \/ Finish

Spec == Init /\ [][Next]_vars

\* the lines a log is made of, for the constructor
DocLines ==
  {MarkerLine, CitationLine, TextLine, KeyValueLine("input", "h2o.nw"),
   EnergyLine(1), GasLine(2), SignatureLine({Sig2})}

RECURSIVE SeqsUpTo(_, _)
SeqsUpTo(S, n) ==
  IF n = 0 THEN {<<>>}
  ELSE LET shorter == SeqsUpTo(S, n - 1)
       IN shorter \cup {Append(q, x) : q \in {r \in shorter : Len(r) = n - 1}, x \in S}

\* a log text is handed to the constructor; no job decode runs on its own
InitDoc ==
  /\ InitJob(FALSE) /\ NoTddft
  /\ init_pc = "new" /\ init_exc = "" /\ job_info = EmptyDict /\ jobs = <<>>
  /\ raw \in SeqsUpTo(DocLines, MaxDocLines)

NextDoc == Construct

SpecDoc == InitDoc /\ [][NextDoc]_vars

\* a job chunk of hessian blocks: rows 1 to 3 as the engine prints them (the
\* lower triangle, a wide row continued in a second column block), a row
\* printed in full, and the lines around them
HessLines ==
  {HessHeader, ProjHessHeader, DashLine, BlankLine, ColLabel,
   HessRow(1, <<1>>), HessRow(2, <<2, 3>>), HessRow(3, <<4, 5>>), HessRow(3, <<6>>),
   HessRow(1, <<1, 2>>)}

NextHess == (\E l \in HessLines : ScanLine(l, MaxHessLines)) \/ Finish

SpecHess == Init /\ [][NextHess]_vars

\* a job chunk of frequency blocks
FreqLines ==
  {FreqHeader(<<1>>), FreqHeader(<<1, 2>>), PFreqHeader(<<3>>), PFreqHeader(<<>>),
   NumRow(1, <<1>>), NumRow(2, <<2, 3>>), BlankLine, AtomsLine(1), WordLine}

NextFreq == (\E l \in FreqLines : ScanLine(l, MaxFreqLines)) \/ Finish

SpecFreq == Init /\ [][NextFreq]_vars

\* the lines of a chunk of a hessian followed by a projected hessian
ProjHessLines ==
  {HessHeader, DashLine, ProjHessHeader, HessRow(1, <<1>>), HessRow(2, <<2>>), HessRow(2, <<2, 3>>)}

NextProjHess == (\E l \in ProjHessLines : ScanLine(l, MaxProjHessLines)) \/ Finish

SpecProjHess == Init /\ [][NextProjHess]_vars

\* the lines of a chunk made of geometry and force-table lines
GeomLines == {GeomHeader, CoordLine("c", 1), LatticeLine, AtomicMassLine, ForceHeader, ForceRow(1)}

NextGeom == (\E l \in GeomLines : ScanLine(l, MaxGeomLines)) \/ Finish

SpecGeom == Init /\ [][NextGeom]_vars

\* the lines of a log of several jobs
JobsDocLines ==
  {MarkerLine, EnergyLine(1), TimeLine(1), GeomHeader, CoordLine("c", 1), AtomicMassLine,
   GasLine(2), CosmoLine, ModuleLine}

NextJobs == BeginDecode \/ DecodeLine \/ ReturnJob \/ ConstructorRaises \/ EnterJob

InitJobs ==
  /\ InitJob(FALSE) /\ NoTddft
  /\ init_pc = "new" /\ init_exc = "" /\ job_info = EmptyDict /\ jobs = <<>>
  /\ raw \in SeqsUpTo(JobsDocLines, MaxDocLines)

SpecJobs == InitJobs /\ [][NextJobs]_vars

\* the lines of a log with a preamble of settings
PreambleLines ==
  {KeyValueLine("input", "a.nw"), KeyValueLine("input", "b.nw"), KeyValue3Line("date", "x", "y"),
   KeyValueLine("date", "z"), TextLine, BlankLine, MarkerLine}

InitPreamble ==
  /\ InitJob(FALSE) /\ NoTddft
  /\ init_pc = "new" /\ init_exc = "" /\ job_info = EmptyDict /\ jobs = <<>>
  /\ raw \in SeqsUpTo(PreambleLines, MaxPreambleLines)

SpecPreamble == InitPreamble /\ [][NextDoc]_vars

\* a job chunk of basis summaries
BsetLines ==
  {BsetHeader, TagRow, TagOtherRow, TagShort, BsetRow("C"), BsetRow("H"), BsetRowC,
   ShortDash, DashLine, BlankLine, EnergyLine(1), WordLine}

NextBset == (\E l \in BsetLines : ScanLine(l, MaxBsetLines)) \/ Finish

SpecBset == Init /\ [][NextBset]_vars

\* the lines of a log with excited-state blocks
TddftLines ==
  {TddftStartLine, TddftEndLine, SingletTagLine, TripletTagLine,
   RootLine(25, "2.5"), RootLine(70, "7.0"), OscLine(3, "0.3"), OscLine(5, "0.5"),
   RootTextLine}

\* the crafted block: start, "singlet excited", a root of 2.5 eV, a strength of 0.3, end
CraftedBlock ==
  <<TddftStartLine, SingletTagLine, RootLine(25, "2.5"), OscLine(3, "0.3"), TddftEndLine>>

\* two roots listed with the higher energy first, each with its strength
UnorderedBlock ==
  <<TddftStartLine, RootLine(70, "7.0"), OscLine(3, "0.3"), RootLine(25, "2.5"), OscLine(5, "0.5")>>

\* the widths asked for, in tenths of an eV: the default 0.1, and 0.2
Widths == {1, 2}

\* a log without job boundary is built (all of it is preamble, no job), then
\* parse_tddft runs on its text, called by get_excitation_spectrum
InitTddft ==
  /\ InitJob(FALSE)
  /\ raw \in SeqsUpTo(TddftLines, MaxTddftLines) \cup {CraftedBlock, UnorderedBlock}
  /\ init_pc = "built" /\ init_exc = "" /\ job_info = _parse_preamble(raw) /\ jobs = <<>>
  /\ tddft_pc = "scan" /\ tddft_exc = "" /\ tddft_lines = raw
  /\ state = "singlet" /\ inside = FALSE
  /\ roots = [singlet |-> <<>>, triplet |-> <<>>]
  /\ spectrum = [x |-> <<>>, y |-> <<>>, den |-> 1, width |-> 0]

NextTddft ==
  \/ TddftLine
  \/ TddftReturn
  \/ \E width \in Widths : \E npoints \in 1..MaxPoints : Spectrum(width, npoints)

SpecTddft == InitTddft /\ [][NextTddft]_vars

\* ------------------------------------------------------------------ properties
\* a step of the loop: one more line fetched
ScanStep == nread' = nread + 1

\* one of the six flags of the if/elif chain of lines 754-834 is set
AnyChainFlag ==
  parse_force \/ parse_freq \/ parse_projected_freq \/ parse_bset \/ parse_hess \/ parse_proj_hess

\* the block flags that are set
FlagsSet ==
  {f \in {"geom", "force", "freq", "pfreq", "bset", "hess", "phess"} :
     \/ (f = "geom" /\ parse_geom) \/ (f = "force" /\ parse_force)
     \/ (f = "freq" /\ parse_freq) \/ (f = "pfreq" /\ parse_projected_freq)
     \/ (f = "bset" /\ parse_bset) \/ (f = "hess" /\ parse_hess)
     \/ (f = "phess" /\ parse_proj_hess)}

Signatures == {error_defs[i].sig : i \in 1..Len(error_defs)}

HasSignature(l) == l.finds \cap Signatures # {}

\* C1: decoding a job chunk never aborts: whatever lines are scanned, no
\* exception ends _parse_job.
C1_DecodeNeverAborts == pc # "error"

\* C2: a log without a job-boundary marker is constructed without an
\* exception and has zero jobs, whatever else it contains.
C2_NoMarkerZeroJobs ==
  (init_pc \in {"built", "error"} /\ \A i \in 1..Len(raw) : ~IsMarker(raw[i]))
    => (init_pc = "built" /\ jobs = <<>>)

Square(m) == \A i \in 1..Len(m) : Len(m[i]) = Len(m)

\* m[i][j] = m[j][i] wherever both entries exist
Symmetric(m) ==
  \A i \in 1..Len(m) : \A j \in 1..Len(m) :
    (j <= Len(m[i]) /\ i <= Len(m[j])) => m[i][j] = m[j][i]

\* each row r was read with exactly r entries: the lower triangle and diagonal
LowerTriangle(m) == \A r \in 1..Len(m) : Len(m[r]) = r

\* the two hessians, each as read by the loop and as returned
HessianPairs ==
  {[read |-> hessian, out |-> data.hessian],
   [read |-> projected_hessian, out |-> data.projected_hessian]}

\* C3 as claimed: a returned hessian or projected hessian with at least one
\* row is square and symmetric, whatever row lines were read.
C3_HessianSquareSymmetric ==
  pc = "done" =>
    \A h \in HessianPairs : Truthy(h.out) => (Square(h.out.val) /\ Symmetric(h.out.val))

\* C3, amended: a returned hessian with at least one row is square exactly
\* when every row r was read with exactly r entries, and it is then symmetric
\* with its lower triangle as read.
C3_SquareSymmetricFromLowerTriangle ==
  pc = "done" =>
    \A h \in HessianPairs :
      Truthy(h.out) =>
        /\ Len(h.out.val) = Len(h.read.val)
        /\ Square(h.out.val) <=> LowerTriangle(h.read.val)
        /\ LowerTriangle(h.read.val) =>
             /\ Symmetric(h.out.val)
             /\ \A i \in 1..Len(h.read.val) : \A j \in 1..i : h.out.val[i][j] = h.read.val[i][j]

\* a 2 x 2 hessian and a 2 x 2 projected hessian, both read as lower
\* triangles, the projected block closed by its own last row
C3_Witness ==
  /\ pc = "done" /\ ~parse_proj_hess /\ ~parse_hess
  /\ hessian.val = <<(<<1>>), <<2, 3>>>>
  /\ projected_hessian.val = <<(<<1>>), <<2, 3>>>>
  /\ data.projected_hessian.val = <<(<<1, 2>>), <<2, 3>>>>
  /\ data.hessian.val = <<(<<1, 2>>), <<2, 3>>>>

\* C4: a chunk that held a failure signature yields a record with has_error
\* set, in which what was read before the failure line is present: the
\* energies, the finished geometries, and the atoms of a geometry that was
\* only partly read.
C4_FailurePreservesData ==
  (pc \in {"done", "error"} /\ errors # <<>>)
    => /\ pc = "done"
       /\ data.has_error
       /\ data.energies = energies
       /\ data.molecules = molecules /\ data.structures = structures
       /\ species = <<>>

\* the tags of the table's signatures that a line holds, in table order
ExpectedTags(l) ==
  LET hit == SelectSeq(error_defs, LAMBDA d : d.sig \in l.finds)
  IN [i \in 1..Len(hit) |-> hit[i].tag]

\* C5: every line scanned, whichever block flag is set, appends the tags of
\* the signatures it holds to errors, in order; the returned record has
\* has_error exactly when its errors are non-empty.
C5_SignatureCheckedEveryLine ==
  [][/\ ScanStep => errors' = errors \o ExpectedTags(line')
     /\ pc' = "done" => /\ data'.errors = errors'
                        /\ data'.has_error <=> (data'.errors # <<>>)]_vars

\* a signature line was scanned inside a hessian block and the record says so
C5_Witness ==
  /\ pc = "done" /\ parse_hess /\ HasSignature(line)
  /\ data.has_error /\ Len(data.errors) = 2

\* C6: at most one of the seven block flags is set at any point, and a line
\* scanned while a block flag is set is left to that block: it feeds no idle
\* trigger and sets no other flag.
C6_OneBlockGovernsLine ==
  [][/\ Cardinality(FlagsSet') <= 1
     /\ (ScanStep /\ FlagsSet # {})
          => /\ FlagsSet' \subseteq FlagsSet
             /\ energies' = energies /\ corrections' = corrections
             /\ data' = data /\ job_type' = job_type]_vars

\* C7 as claimed: a total-energy line appends an entry and a correction line
\* records its correction whichever block flag is set.
C7_TriggersRegardlessOfBlock ==
  [][ScanStep =>
       /\ Match(line', "energy") => Len(energies') = Len(energies) + 1
       /\ Match(line', "corr") => line'.m["corr"][1].text \in DOMAIN corrections']_vars

\* a trigger that the idle branch tries before the correction pattern takes
\* the line: lines 837-892
EarlierTriggerTakes(l) ==
  \/ Match(l, "energy") \/ Match(l, "pre")
  \/ l.finds \cap {"Geometry \"geometry\"", "Summary of \"ao basis\"", "Frequency",
                   "MASS-WEIGHTED NUCLEAR HESSIAN", "MASS-WEIGHTED PROJECTED HESSIAN",
                   "atom               coordinates                        gradient"} # {}
  \/ (job_type = "" /\ l.toks # <<>> /\ l.toks[1].text = "NWChem")

\* C7, amended: the two triggers act exactly when none of the six flags of
\* the if/elif chain is set; the geometry flag does not keep them from acting.
\* A correction line is recorded unless an earlier trigger of the idle branch
\* takes it.
C7_TriggersOnlyOutsideChainBlocks ==
  [][ScanStep =>
       /\ Match(line', "energy") =>
            energies' = IF AnyChainFlag THEN energies
                        ELSE Append(energies, ScalarE(HaToEV(line'.m["energy"][1].num)))
       /\ Match(line', "corr") =>
            IF AnyChainFlag \/ EarlierTriggerTakes(line') THEN corrections' = corrections
            ELSE /\ DOMAIN corrections' = DOMAIN corrections \cup {line'.m["corr"][1].text}
                 /\ corrections'[line'.m["corr"][1].text] = KJmolToEVatom(line'.m["corr"][2].num)]_vars

\* with the geometry flag set, an energy line appended and a correction line
\* recorded
C7_Witness ==
  /\ pc = "scan" /\ parse_geom /\ ~AnyChainFlag
  /\ Len(energies) = 1 /\ Match(line, "corr") /\ DOMAIN corrections # {}

\* C8: the timing flag is armed only by an energy line that appends; the
\* first timing line scanned while it is armed sets task_time and disarms it,
\* whichever block flag is set; otherwise task_time is left alone.
C8_TimingOneShot ==
  [][/\ ScanStep =>
          /\ (parse_time' /\ ~parse_time)
               => (Match(line', "energy") /\ Len(energies') = Len(energies) + 1)
          /\ (parse_time /\ Match(line', "time"))
               => (time' = line'.m["time"][1].num /\ ~parse_time')
          /\ ~(parse_time /\ Match(line', "time")) => time' = time
     /\ pc' = "done" => data'.task_time = time']_vars

\* a timing line was taken inside a hessian block and a second one, with
\* another value, left task_time alone
C8_Witness ==
  /\ pc = "scan" /\ parse_hess /\ line = TimeLine(2)
  /\ time = 1 /\ ~parse_time /\ energies # <<>>

\* C9: with the scalar e last in energies, a gas-phase line scanned by the
\* idle branch replaces it by {cosmo scf: e, gas phase: g}; a sol-phase line
\* then adds sol phase to that mapping, giving three keys; the number of
\* entries and the earlier entries stay; and after an energy or gas-phase line
\* has acted no chain flag is set, so the next line reaches the idle branch.
C9_GasSolRewriteLastEntry ==
  [][(ScanStep /\ ~AnyChainFlag) =>
       LET n == Len(energies)
           e == energies[n]
       IN /\ (Match(line', "gas") /\ n > 0 /\ e.form = "scalar") =>
               /\ Len(energies') = n
               /\ SubSeq(energies', 1, n - 1) = SubSeq(energies, 1, n - 1)
               /\ energies'[n].form = "dict"
               /\ DOMAIN energies'[n].items = {"cosmo scf", "gas phase"}
               /\ energies'[n].items["cosmo scf"] = e
               /\ energies'[n].items["gas phase"] = ScalarE(HaToEV(line'.m["gas"][1].num))
               /\ ~AnyChainFlag'
          /\ (Match(line', "sol") /\ n > 0 /\ e.form = "dict"
                /\ DOMAIN e.items = {"cosmo scf", "gas phase"}) =>
               /\ Len(energies') = n
               /\ SubSeq(energies', 1, n - 1) = SubSeq(energies, 1, n - 1)
               /\ energies'[n].form = "dict"
               /\ DOMAIN energies'[n].items = {"cosmo scf", "gas phase", "sol phase"}
               /\ energies'[n].items["cosmo scf"] = e.items["cosmo scf"]
               /\ energies'[n].items["gas phase"] = e.items["gas phase"]
               /\ energies'[n].items["sol phase"] = ScalarE(HaToEV(line'.m["sol"][1].num))
          /\ (Match(line', "energy") /\ Len(energies') = n + 1) => ~AnyChainFlag']_vars

\* energy, energy, gas phase, sol phase: the second entry has the three keys
C9_Witness ==
  /\ pc = "scan" /\ Len(energies) = 2
  /\ energies[1].form = "scalar" /\ energies[2].form = "dict"
  /\ DOMAIN energies[2].items = {"cosmo scf", "gas phase", "sol phase"}
  /\ energies[2].items["cosmo scf"] = energies[1]

\* the two mode lists, each as read by the loop and as returned
ModePairs ==
  {[read |-> frequencies, out |-> data.frequencies],
   [read |-> normal_frequencies, out |-> data.normal_frequencies]}

\* C10 as claimed: every returned mode holds only triples, as many as the job
\* has atoms, and regrouping drops none of the scalars read for the mode.
C10_ModesAreAtomTriples ==
  pc = "done" =>
    \A p \in ModePairs : \A i \in 1..Len(p.out.val) :
      LET d == p.out.val[i].disp
      IN /\ \A k \in 1..Len(d) : Len(d[k]) = 3
         /\ "natoms" \in DOMAIN data => Len(d) = data.natoms
         /\ 3 * Len(d) = Len(p.read.val[i].disp)

\* C10, amended: every returned mode holds only triples, the scalars read for
\* it taken three at a time in order; there are floor(k / 3) of them for k
\* scalars read, so the last k mod 3 scalars are dropped, and the length is
\* the atom count exactly when 3 x atom count scalars (up to 2 more) were read.
C10_ModesAreTriplesOfPrefix ==
  pc = "done" =>
    \A p \in ModePairs :
      /\ Len(p.out.val) = Len(p.read.val)
      /\ \A i \in 1..Len(p.out.val) :
           LET d == p.out.val[i].disp
               flat == p.read.val[i].disp
           IN /\ p.out.val[i].freq = p.read.val[i].freq
              /\ Len(d) = Len(flat) \div 3
              /\ \A k \in 1..Len(d) :
                   /\ Len(d[k]) = 3
                   /\ \A c \in 1..3 : d[k][c] = flat[3 * (k - 1) + c]
              /\ "natoms" \in DOMAIN data =>
                   (Len(d) = data.natoms <=> Len(flat) \div 3 = data.natoms)

\* a job of one atom: a mode that read three scalars returns one triple, and
\* a mode that read four returns one triple too
C10_Witness ==
  /\ pc = "done" /\ "natoms" \in DOMAIN data /\ data.natoms = 1
  /\ Len(normal_frequencies.val) = 2
  /\ normal_frequencies.val[1].disp = <<1, 1, 1>>
  /\ data.normal_frequencies.val[1].disp = <<(<<1, 1, 1>>)>>

\* ------------------------------------------------------------------ C11 and C12
\* a step of the while loop of parse_tddft: one line popped
TddftStep == tddft_lines # <<>> /\ tddft_lines' = Tail(tddft_lines)

\* the line holds the start tag or the end tag
HasBlockTag(l) == Finds(l, "Convergence criterion met") \/ Finds(l, "Excited state energy")

\* the line holds one of the two multiplicity tags
HasLabelTag(l) == Finds(l, "singlet excited") \/ Finds(l, "triplet excited")

\* C11: a root is started only by a line with "Root" and "eV" scanned while
\* inside is set, and is filed under the label in effect on that line; the
\* block tags set and clear inside, the multiplicity tags switch the label
\* whether or not inside is set; a strength line scanned while inside sets
\* osc_strength on the last root of the current label.  The crafted block
\* gives one singlet root (2.5, 0.3) and no triplet root.
C11_RootsFiledUnderLabel ==
  [][/\ TddftStep =>
          LET l == line'
          IN /\ \A lbl \in {"singlet", "triplet"} :
                   Len(roots'[lbl]) # Len(roots[lbl]) =>
                     /\ inside /\ Finds(l, "Root") /\ Finds(l, "eV")
                     /\ lbl = state /\ state' = state
                     /\ roots'[lbl] = Append(roots[lbl], NewRoot(l.toks[Len(l.toks) - 1].num))
             /\ inside' = IF Finds(l, "Convergence criterion met") THEN TRUE
                          ELSE IF Finds(l, "Excited state energy") THEN FALSE
                          ELSE inside
             /\ state' = IF HasBlockTag(l) THEN state
                         ELSE IF Finds(l, "singlet excited") THEN "singlet"
                         ELSE IF Finds(l, "triplet excited") THEN "triplet"
                         ELSE state
             /\ (/\ inside /\ Finds(l, "Dipole Oscillator Strength")
                 /\ ~HasBlockTag(l) /\ ~HasLabelTag(l)
                 /\ ~(Finds(l, "Root") /\ Finds(l, "eV"))
                 /\ roots[state] # <<>>) =>
                  /\ Len(roots'[state]) = Len(roots[state])
                  /\ Last(roots'[state]) = [energy |-> Last(roots[state]).energy, has_osc |-> TRUE,
                                             osc_strength |-> Last(l.toks).num]
                  /\ \A i \in 1..(Len(roots[state]) - 1) : roots'[state][i] = roots[state][i]
                  /\ \A lbl \in {"singlet", "triplet"} \ {state} : roots'[lbl] = roots[lbl]
     /\ (tddft_pc' = "returned" /\ raw' = CraftedBlock) =>
          roots' = [singlet |-> <<[energy |-> 25, has_osc |-> TRUE, osc_strength |-> 3]>>,
                    triplet |-> <<>>]]_vars

\* the crafted block was parsed
C11_Witness ==
  /\ tddft_pc = "returned" /\ raw = CraftedBlock
  /\ roots.singlet = <<[energy |-> 25, has_osc |-> TRUE, osc_strength |-> 3]>>

\* C12: every root returned carries an energy and an oscillator strength, the
\* strength being that of the first strength line after its own Root line
C12_EveryRootHasStrength ==
  [][/\ tddft_pc' = "returned" =>
          \A lbl \in {"singlet", "triplet"} : \A i \in 1..Len(roots'[lbl]) : roots'[lbl][i].has_osc
     /\ TddftStep =>
          \A lbl \in {"singlet", "triplet"} : \A i \in 1..Len(roots[lbl]) :
             roots[lbl][i].has_osc => roots'[lbl][i] = roots[lbl][i]]_vars

\* ------------------------------------------------------------------ C13
\* the positions of the boundary markers in the log
MarkerPositions == {i \in 1..Len(raw) : IsMarker(raw[i])}

\* the position of the n-th marker
NthMarker(n) ==
  CHOOSE i \in MarkerPositions : Cardinality({j \in MarkerPositions : j < i}) = n - 1

\* the text between the n-th marker and the next one, or the end of the log:
\* the rest of the marker's line, the lines after it, and the start of the
\* next marker's line
ChunkAfterMarker(n) ==
  LET k == Cardinality(MarkerPositions)
      from == NthMarker(n) + 1
      to == IF n < k THEN NthMarker(n + 1) - 1 ELSE Len(raw)
  IN <<BlankLine>> \o SubSeq(raw, from, to) \o (IF n < k THEN <<BlankLine>> ELSE <<>>)

\* the text before the first marker
TextBeforeFirstMarker == Append(SubSeq(raw, 1, NthMarker(1) - 1), BlankLine)

\* C13: with k >= 1 markers the preamble is the text before the first marker
\* and the jobs are decoded from the k chunks after the markers, in order,
\* the last one being dropped exactly when it holds the citation marker: k or
\* k - 1 jobs, job i from chunk i.  When a decode raises, it is the decode of
\* one of these chunks.
C13_JobsFromChunksInOrder ==
  LET k == Cardinality(MarkerPositions)
      kept == IF HasCitation(ChunkAfterMarker(k)) THEN k - 1 ELSE k
  IN (k >= 1 /\ init_pc \in {"built", "error"}) =>
       /\ job_info = _parse_preamble(TextBeforeFirstMarker)
       /\ init_pc = "built" =>
            /\ Len(jobs) = kept
            /\ \A i \in 1..kept :
                 /\ ParseJob(ChunkAfterMarker(i)).raised = ""
                 /\ jobs[i] = ParseJob(ChunkAfterMarker(i)).record
       /\ init_pc = "error" =>
            \E i \in 1..kept : ParseJob(ChunkAfterMarker(i)).raised = init_exc

\* a log of two chunks, the first with an energy line and the second with
\* the citation marker: one job, from the first chunk
C13_Witness ==
  /\ init_pc = "built" /\ Cardinality(MarkerPositions) = 2
  /\ HasCitation(ChunkAfterMarker(2)) /\ ~HasCitation(ChunkAfterMarker(1))
  /\ Len(jobs) = 1 /\ Len(jobs[1].energies) = 1

\* ------------------------------------------------------------------ C14 and C15
\* the energies of the singlet roots
SingletEnergies == {roots.singlet[i].energy : i \in 1..Len(roots.singlet)}

MinEnergy == CHOOSE e \in SingletEnergies : \A f \in SingletEnergies : e <= f

MaxEnergy == CHOOSE e \in SingletEnergies : \A f \in SingletEnergies : e >= f

\* C14: x and y have the requested number of points and x is strictly
\* increasing, for singlet roots listed in any order and any positive width
C14_GridStrictlyIncreasing ==
  tddft_pc = "spectrum" =>
    /\ Len(spectrum.x) = spectrum.den /\ Len(spectrum.y) = spectrum.den
    /\ \A i \in 1..Len(spectrum.x) : \A j \in 1..Len(spectrum.x) :
         i < j => spectrum.x[i] < spectrum.x[j]

\* C15: the grid starts at the lowest root energy less 20 widths, and its
\* step is the distance from there to the highest root energy plus 20 widths
\* divided by the number of points (x holds numerators over den = npoints)
C15_GridSpansMinToMax ==
  tddft_pc = "spectrum" =>
    LET lo == MinEnergy - 20 * spectrum.width
        hi == MaxEnergy + 20 * spectrum.width
    IN /\ spectrum.x[1] = lo * spectrum.den
       /\ \A i \in 1..(Len(spectrum.x) - 1) : spectrum.x[i + 1] - spectrum.x[i] = hi - lo

\* ------------------------------------------------------------------ C16
\* the pairing, in order, of the column names after the first with the
\* tokens after the first
IsPairing(pairs, header, tokens) ==
  /\ Len(pairs) = Min2(Max2(Len(header) - 1, 0), Len(tokens) - 1)
  /\ \A i \in 1..Len(pairs) :
       pairs[i].key = header[i + 1] /\ pairs[i].value = tokens[i + 1].text

\* C16: in the basis-summary block a Tag row sets the lower-cased column
\* names without its 5th column, a row of dashes changes nothing, any other
\* row maps its first token to the pairing of the remaining names with its
\* remaining tokens, and a blank line ends the block.  The header
\* "Tag Description Shells Functions Other Type" and the row
\* "C description 2 3 s" map C to description, shells, functions and type.
C16_BasisSummaryRows ==
  [][(ScanStep /\ parse_bset /\ ~parse_force /\ ~parse_freq /\ ~parse_projected_freq) =>
       LET l == line'
           tokens == l.toks
       IN /\ l.text = "" => (~parse_bset' /\ UNCHANGED <<basis_set, bset_header>>)
          /\ l.text # "" => parse_bset'
          /\ (l.text # "" /\ tokens[1].text = "Tag" /\ Len(tokens) >= 5) =>
               /\ Len(bset_header') = Len(tokens) - 1
               /\ \A i \in 1..Len(bset_header') :
                    bset_header'[i] = Lower(tokens[IF i < 5 THEN i ELSE i + 1].text)
               /\ UNCHANGED basis_set
          /\ (l.text # "" /\ tokens[1].cls = "dash") => UNCHANGED <<basis_set, bset_header>>
          /\ (l.text # "" /\ tokens[1].text # "Tag" /\ tokens[1].cls # "dash") =>
               /\ DOMAIN basis_set' = DOMAIN basis_set \cup {tokens[1].text}
               /\ IsPairing(basis_set'[tokens[1].text], bset_header, tokens)
               /\ \A k \in DOMAIN basis_set \ {tokens[1].text} : basis_set'[k] = basis_set[k]
               /\ UNCHANGED bset_header
          /\ l = TagOtherRow =>
               bset_header' = <<"tag", "description", "shells", "functions", "type">>
          /\ (l = BsetRowC /\ bset_header = <<"tag", "description", "shells", "functions", "type">>) =>
               basis_set'["C"] = <<[key |-> "description", value |-> "description"],
                                   [key |-> "shells", value |-> "2"],
                                   [key |-> "functions", value |-> "3"],
                                   [key |-> "type", value |-> "s"]>>]_vars

\* the header with the column Other, then the row for C, were scanned
C16_Witness ==
  /\ line = BsetRowC /\ parse_bset /\ pc = "scan"
  /\ bset_header = <<"tag", "description", "shells", "functions", "type">>
  /\ "C" \in DOMAIN basis_set
  /\ {basis_set["C"][i].key : i \in 1..Len(basis_set["C"])} =
       {"description", "shells", "functions", "type"}

\* ------------------------------------------------------------------ C17
\* the lines of the preamble: the text before the first marker, all of the
\* text when there is none
PreambleOfRaw ==
  IF MarkerPositions = {} THEN raw ELSE SubSeq(raw, 1, NthMarker(1) - 1)

\* the positions of the preamble lines that hold an "="
SettingPositions == {i \in 1..Len(PreambleOfRaw) : Len(PreambleOfRaw[i].eq) > 1}

\* C17: every preamble line with an "=" maps the text before its first "="
\* to the text after its last "="; a line without "=" adds no key; of
\* several lines with the same key the last one gives the value
C17_PreambleKeyToLastValue ==
  init_pc = "built" =>
    /\ DOMAIN job_info = {PreambleOfRaw[i].eq[1] : i \in SettingPositions}
    /\ \A i \in SettingPositions :
         (\A j \in SettingPositions : j > i => PreambleOfRaw[j].eq[1] # PreambleOfRaw[i].eq[1]) =>
           job_info[PreambleOfRaw[i].eq[1]] = Last(PreambleOfRaw[i].eq)

\* a preamble with two lines for the key input and a line with two "="
C17_Witness ==
  /\ init_pc = "built"
  /\ \E i \in 1..Len(raw) : \E j \in 1..Len(raw) :
       i < j /\ raw[i] = KeyValueLine("input", "a.nw") /\ raw[j] = KeyValueLine("input", "b.nw")
  /\ \E i \in 1..Len(raw) : raw[i] = KeyValue3Line("date", "x", "y")
  /\ \E i \in 1..Len(raw) : raw[i] = TextLine
  /\ job_info = [input |-> "b.nw", date |-> "y"]

\* ------------------------------------------------------------------ C18
\* C18: the record of a job depends only on the lines of its chunk: every
\* record collected is the one _parse_job gives for that chunk alone, and
\* the locals of the running call are those the lines of its chunk read so
\* far give from fresh locals, whatever chunks were decoded before
C18_RecordDependsOnChunkOnly ==
  /\ \A i \in 1..Len(jobs) :
       /\ ParseJob(JobChunks[i]).raised = ""
       /\ jobs[i] = ParseJob(JobChunks[i]).record
  /\ (init_pc = "decoding" /\ pc = "scan") =>
       Locals = ScanFrom(InitLocals(ChunkHasCosmo(CurrentChunk)), SubSeq(CurrentChunk, 1, nread), 1)

\* two jobs were decoded; the first chunk ended inside a geometry block,
\* the second holds the line that ends such a block
C18_Witness ==
  /\ init_pc = "built" /\ Len(jobs) = 2
  /\ raw = <<MarkerLine, GeomHeader, MarkerLine, AtomicMassLine>>
  /\ jobs[2].molecules = <<>>

\* ------------------------------------------------------------------ C19
\* C19: an "Atomic Mass" line scanned while the geometry flag is set
\* finalizes exactly one geometry, a periodic structure if a lattice row is
\* pending and a molecule otherwise, built from exactly the pending atoms
\* (each atom line scanned with the flag set adds one atom), then empties
\* the three accumulators and clears the flag; with the flag not set a line
\* adds nothing to the accumulators and finalizes nothing
C19_AtomicMassFinalizesOne ==
  [][ScanStep =>
       /\ (parse_geom /\ line'.text = "Atomic Mass") =>
            /\ IF lattice # <<>>
               THEN /\ structures' = Append(structures, [lattice |-> lattice, species |-> species,
                                                         coords |-> coords])
                    /\ molecules' = molecules
               ELSE /\ molecules' = Append(molecules, [species |-> species, coords |-> coords])
                    /\ structures' = structures
            /\ species' = <<>> /\ coords' = <<>> /\ lattice' = <<>> /\ ~parse_geom'
       /\ (parse_geom /\ line'.text # "Atomic Mass") =>
            /\ molecules' = molecules /\ structures' = structures
            /\ species' = IF Match(line', "coord")
                          THEN Append(species, Capitalize(line'.m["coord"][1].text)) ELSE species
            /\ coords' = IF Match(line', "coord")
                         THEN Append(coords, Floats(SubSeq(line'.m["coord"], 2, 4))) ELSE coords
            /\ lattice' = IF Match(line', "lat") THEN Append(lattice, Floats(line'.m["lat"]))
                          ELSE lattice
       /\ ~parse_geom =>
            /\ species' = species /\ coords' = coords /\ lattice' = lattice
            /\ molecules' = molecules /\ structures' = structures]_vars

\* an "Atomic Mass" line has just finalized a periodic structure of one atom
\* and three lattice rows, and nothing is pending
C19_Witness ==
  /\ pc = "scan" /\ line = AtomicMassLine /\ ~parse_geom
  /\ Len(structures) = 1 /\ molecules = <<>>
  /\ Len(structures[1].lattice) = 3
  /\ structures[1].species = <<"C">> /\ Len(structures[1].coords) = 1
  /\ species = <<>> /\ coords = <<>> /\ lattice = <<>>

\* ------------------------------------------------------------------ C20
\* the three gradient components of a force-table row
ForceComponents(l) == Floats(SubSeq(l.m["force"], 6, 8))

IsForceHeader(l) == Finds(l, "atom               coordinates                        gradient")

\* inside the force block: a matching row extends the pending table, a
\* non-matching line ends a non-empty pending table and leaves the block, a
\* non-matching line before the first row changes nothing
ForceTableStep ==
  parse_force =>
    IF Match(line', "force")
    THEN forces' = forces \o ForceComponents(line') /\ all_forces' = all_forces /\ parse_force'
    ELSE IF forces # <<>>
    THEN all_forces' = Append(all_forces, forces) /\ forces' = <<>> /\ ~parse_force'
    ELSE forces' = forces /\ all_forces' = all_forces /\ parse_force'

\* C20: every force-table header followed by k >= 1 matching rows and a
\* non-matching line appends one table of those 3k components and leaves the
\* block; a non-matching line before the first row changes nothing. In
\* particular the row scanned right after a header starts the pending table
C20_EveryHeaderOpensTable ==
  [][ScanStep =>
       /\ ForceTableStep
       /\ (IsForceHeader(line) /\ Match(line', "force")) => forces' = ForceComponents(line')]_vars

\* C20, amended: the same for a header scanned while none of the six chain
\* flags is set, which opens the block with nothing pending; a header
\* scanned inside a block, the header that ends the previous table included,
\* opens nothing, and outside the force block no row is collected
C20_IdleHeaderOpensTable ==
  [][ScanStep =>
       /\ ForceTableStep
       /\ (IsForceHeader(line') /\ ~AnyChainFlag) =>
            parse_force' /\ forces' = <<>> /\ all_forces' = all_forces
       /\ ~parse_force => forces = <<>> /\ forces' = <<>> /\ all_forces' = all_forces
       /\ (IsForceHeader(line') /\ AnyChainFlag /\ ~parse_force) => ~parse_force'
       /\ (IsForceHeader(line') /\ parse_force /\ forces # <<>>) => ~parse_force']_vars

\* a header, two rows and a blank line were scanned: one table of six
\* components was appended and the block left
C20_Witness ==
  /\ pc = "scan" /\ nread = 4 /\ line = BlankLine
  /\ ~parse_force /\ forces = <<>>
  /\ Len(all_forces) = 1 /\ all_forces[1] = ForceComponents(ForceRow(1)) \o ForceComponents(ForceRow(1))

\* ------------------------------------------------------------------ C21
\* C21: partial block data is preserved when the chunk ends: the record
\* returned holds the force rows still pending as a table of its forces and
\* the atoms still pending as one more molecule or structure
C21_PendingDataReturned ==
  pc = "done" =>
    /\ forces # <<>> => data.forces = Append(all_forces, forces)
    /\ species # <<>> =>
         Len(data.molecules) + Len(data.structures) = Len(molecules) + Len(structures) + 1

\* ------------------------------------------------------------------ C22
\* the k-th of n values goes to the k-th of the last n modes, no other mode changes
ValuesToLastModes(modes, vals) ==
  LET skip == Len(modes) - Len(vals)
  IN [i \in 1..Len(modes) |->
        IF i > skip THEN [modes[i] EXCEPT !.disp = Append(@, vals[i - skip])] ELSE modes[i]]

\* one line scanned by a frequency block over the modes before and after
FrequencyBlockStep(before, after, stays) ==
  IF line'.text = ""
  THEN before.val # <<>> =>
         /\ after = before
         /\ stays = (Len(Last(before.val).disp) = 0)
  ELSE (AllFloatOk(Tail1(line'.toks)) /\ Len(line'.toks) - 1 <= Len(before.val)) =>
         /\ after.val = ValuesToLastModes(before.val, Floats(Tail1(line'.toks)))
         /\ stays

\* C22: in a normal or projected frequency block a non-blank line of N
\* values appends its k-th value to the k-th of the last N opened modes and
\* touches no other mode; a blank line ends the block only if the most
\* recently opened mode has a displacement, otherwise the block stays active
C22_ValuesToLastOpenedModes ==
  [][ScanStep =>
       /\ (~parse_force /\ parse_freq) =>
            /\ FrequencyBlockStep(normal_frequencies, normal_frequencies', parse_freq')
            /\ frequencies' = frequencies
       /\ (~parse_force /\ ~parse_freq /\ parse_projected_freq) =>
            /\ FrequencyBlockStep(frequencies, frequencies', parse_projected_freq')
            /\ normal_frequencies' = normal_frequencies]_vars

\* a line of one value reached only the second of two modes, a line of two
\* values both, and the blank line after them ended the block
C22_Witness ==
  /\ pc = "scan" /\ line = BlankLine /\ ~parse_freq
  /\ Len(normal_frequencies.val) = 2
  /\ normal_frequencies.val[1].disp = <<2>>
  /\ normal_frequencies.val[2].disp = <<1, 3>>

\* ------------------------------------------------------------------ C23
\* the hessian block is the branch of the chain that takes the line
HessBlockTakesLine ==
  ~parse_force /\ ~parse_freq /\ ~parse_projected_freq /\ ~parse_bset /\ parse_hess

\* row r of matrix m, empty while the matrix has no such row
RowOf(m, r) == IF r <= Len(m) THEN m[r] ELSE <<>>

\* C23: in a hessian block the values of a data line with row index r >= 1
\* are appended, in order, to row r of the matrix, which is created when r is
\* seen first, and no row the matrix already had, other than r, changes
C23_ValuesGoToRowOfIndex ==
  [][(ScanStep /\ HessBlockTakesLine /\ RowKind(line') = "row" /\ line'.toks[1].num >= 1) =>
       LET r == line'.toks[1].num
       IN /\ Len(hessian'.val) >= r
          /\ RowOf(hessian'.val, r) = RowOf(hessian.val, r) \o RowVals(line')
          /\ \A i \in 1..Len(hessian.val) : i # r => hessian'.val[i] = hessian.val[i]]_vars

\* ------------------------------------------------------------------ C24
\* the projected-hessian block is the branch of the chain that takes the line
ProjHessBlockTakesLine ==
  /\ ~parse_force /\ ~parse_freq /\ ~parse_projected_freq /\ ~parse_bset /\ ~parse_hess
  /\ parse_proj_hess

\* the line scanned is a data line of the projected hessian whose row index
\* names a row of the matrix or the next new row
ProjHessDataLine ==
  /\ ScanStep /\ ProjHessBlockTakesLine /\ hessian.some
  /\ RowKind(line') = "row"
  /\ line'.toks[1].num >= 1 /\ line'.toks[1].num <= Len(projected_hessian.val) + 1

\* C24: the projected-hessian block ends on the first data line after which
\* the row of that line has as many columns as the hessian has rows, and on
\* no earlier line
C24_EndsWhenRowOfLineComplete ==
  [][/\ ProjHessDataLine =>
          parse_proj_hess' =
            (Len(RowOf(projected_hessian'.val, line'.toks[1].num)) # Len(hessian.val))
     /\ (ScanStep /\ ProjHessBlockTakesLine /\ RowKind(line') # "row") => parse_proj_hess']_vars

\* C24, amended: the block ends on the first data line after which the last
\* row of the projected matrix has as many columns as the hessian has rows,
\* whichever row the line extended, and on no earlier line
C24_EndsWhenLastRowComplete ==
  [][/\ ProjHessDataLine =>
          parse_proj_hess' = (Len(Last(projected_hessian'.val)) # Len(hessian.val))
     /\ (ScanStep /\ ProjHessBlockTakesLine /\ RowKind(line') # "row") => parse_proj_hess']_vars

\* a projected hessian of two rows was read after a hessian of two rows and
\* the line that completed its last row ended the block
C24_Witness ==
  /\ pc = "scan" /\ ~parse_proj_hess /\ ~parse_hess
  /\ hessian.val = <<<<1>>, <<2, 3>>>>
  /\ projected_hessian.val = <<<<1>>, <<2, 3>>>>
  /\ line = HessRow(2, <<2, 3>>)

\* ------------------------------------------------------------------ C25
\* C25: a chunk with a projected-hessian header and no hessian read before
\* it ends in an error: no record is returned for it
C25_ProjectedWithoutHessianIsError ==
  pc = "done" => ~(projected_hessian.some /\ hessian.val = <<>>)

\* ------------------------------------------------------------------ C26
\* C26: every scan runs to completion: a call of _parse_job has ended only
\* after it visited every line of its chunk, one per step, and parse_tddft
\* has ended only after it consumed every line of the text
C26_ScanVisitsEveryLine ==
  /\ (init_pc = "decoding" /\ pc \in {"done", "error"}) => nread = Len(CurrentChunk)
  /\ tddft_pc \in {"returned", "error"} => tddft_lines = <<>>

\* ------------------------------------------------------------------ C27
\* the flags of the if/elif chain that are set
ChainFlagsSet == FlagsSet \ {"geom"}

\* C27: at most one of the six chain flags is set at every point of the
\* scan; a line sets one of them only if it is scanned while none of the six
\* is set, and then it sets at most one
C27_AtMostOneChainFlag ==
  [][/\ Cardinality(ChainFlagsSet) <= 1 /\ Cardinality(ChainFlagsSet') <= 1
     /\ (ScanStep /\ ChainFlagsSet' \ ChainFlagsSet # {}) =>
          ChainFlagsSet = {} /\ Cardinality(ChainFlagsSet') = 1]_vars

\* a basis-summary header scanned inside the force block ended the table
\* without opening the basis block, and a second one then opened it
C27_Witness ==
  /\ pc = "scan" /\ nread = 4 /\ line = BsetHeader
  /\ ChainFlagsSet = {"bset"}
  /\ all_forces = <<ForceComponents(ForceRow(1))>>
====
